---- MODULE Spec2Model ----
(***************************************************************************)
(* Model of the pipeline engine of yaml-cli-ui (yaml_cli_ui/engine.py):    *)
(* PipelineEngine.run_action / _run_steps / _run_command / stop_action,    *)
(* the per-action cancellation registry and the spawned processes.         *)
(*                                                                         *)
(* Worker threads call run_action once each, stopper threads call          *)
(* stop_action once each; every step between two accesses to shared state  *)
(* (the registry, an Event flag, a process) is one atomic action.          *)
(***************************************************************************)
EXTENDS Integers, Sequences, FiniteSets, TLC

\* ----------------------------------------------------------------- threads
\* Two worker threads, each calling run_action once: what the engine
\* promises about concurrent runs is about pairs of them.
Workers == {"w1", "w2"}
Earlier(t) == IF t = "w2" THEN {"w1"} ELSE {}

\* The calls of stop_action, made one after another (MaxStops of them).
MaxStops == 1
Stoppers == 1..MaxStops

\* ------------------------------------------------------------ python dicts
EmptyDict == <<>>
Has(d, k) == k \in DOMAIN d
Get(d, k, default) == IF k \in DOMAIN d THEN d[k] ELSE default
Put(d, k, v) == [x \in (DOMAIN d) \cup {k} |-> IF x = k THEN v ELSE d[x]]
Pop(d, k) == [x \in (DOMAIN d) \ {k} |-> d[x]]

\* list.remove(x): drops the first occurrence
RECURSIVE ListRemove(_, _)
ListRemove(l, x) ==
    IF l = <<>> THEN <<>>
    ELSE IF Head(l) = x THEN Tail(l)
    ELSE <<Head(l)>> \o ListRemove(Tail(l), x)

InList(l, x) == \E i \in 1..Len(l) : l[i] = x

\* ------------------------------------------------------------ exit codes
SIGTERM == 15
SIGKILL == 9

\* ------------------------------------------------------- the step tables
\* A step of the YAML document.  kind: which of the keys run / pipeline /
\* foreach the step carries ("unknown": none of them).  The fields after
\* body describe what evaluating the step's templates and running its
\* program does on this machine: they are the inputs of the model.
\*   when    "none" (no guard) | "error" (evaluation raises) | the value the
\*           guard renders to: "true" (True), "false" (False), "zero" (0),
\*           "empty" (the empty string), "str_false" (the text 'false')
\*   items   foreach: length of the rendered list, -1 when it is not a list
\*   isList  pipeline step: whether its value is a list
\*   render  "ok" | "error": rendering program/argv/env raises EngineError
\*   launch  "ok" | "oserror": Popen raises OSError
\*   codes   exit codes the program may end with by itself ({}: it never does)
\*   ignoreTerm  the program ignores SIGTERM
\*   timeout timeout_ms is set
\*   list    foreach: the rendered list (items is its length)
\*   as      foreach: the alias, foreach.get("as", "item")
\*   forks   the program leaves descendants running in its process group
NoId == "<none>"

\* The elements of the lists of the documents.
DefaultItems == <<"1", "2">>

RunStep(id, codes) ==
    [kind |-> "run", id |-> id, coe |-> FALSE, when |-> "none", body |-> <<>>,
     items |-> 0, isList |-> TRUE, render |-> "ok", launch |-> "ok",
     codes |-> codes, ignoreTerm |-> FALSE, timeout |-> FALSE,
     list |-> <<>>, as |-> "item", forks |-> FALSE]

PipelineStep(id, body) ==
    [kind |-> "pipeline", id |-> id, coe |-> FALSE, when |-> "none", body |-> body,
     items |-> 0, isList |-> TRUE, render |-> "ok", launch |-> "ok",
     codes |-> {}, ignoreTerm |-> FALSE, timeout |-> FALSE,
     list |-> <<>>, as |-> "item", forks |-> FALSE]

ForeachStep(id, n, body) ==
    [kind |-> "foreach", id |-> id, coe |-> FALSE, when |-> "none", body |-> body,
     items |-> n, isList |-> TRUE, render |-> "ok", launch |-> "ok",
     codes |-> {}, ignoreTerm |-> FALSE, timeout |-> FALSE,
     list |-> IF n > 0 THEN SubSeq(DefaultItems, 1, n) ELSE <<>>,
     as |-> "item", forks |-> FALSE]

\* step name -> step.  Names are positions in the document, ids are the
\* "id" keys (NoId: the key is absent).
StepNames ==
    {"slow_run", "outer", "inner", "after", "first", "main", "cleanup",
     "wipe", "bad", "tidy", "timed", "stubborn",
     "fe", "echo", "post",
     "fo", "fi", "leaf", "tail", "last",
     "w", "w0", "we", "v", "vs", "b",
     "a_exit", "a_launch", "a_time", "a_expr", "a_nest", "a_bad", "a_end",
     "u", "p", "q", "fin",
     "m", "same", "auto", "box", "x", "y", "z",
     "ge", "gbox"}

StepDef(n) ==
    CASE n = "slow_run" -> RunStep("slow_run", {0, 3})
      [] n = "outer"    -> [PipelineStep("outer", <<"inner">>) EXCEPT !.coe = TRUE]
      [] n = "inner"    -> RunStep("inner", {0})
      [] n = "after"    -> RunStep("after", {0})
      [] n = "first"    -> RunStep("first", {0})
      [] n = "main"     -> RunStep("main", {2})
      [] n = "cleanup"  -> RunStep("cleanup", {0})
      [] n = "wipe"     -> RunStep("wipe", {7})
      [] n = "bad"      -> [RunStep("bad", {0}) EXCEPT !.render = "error"]
      [] n = "tidy"     -> RunStep("tidy", {0})
      [] n = "timed"    -> [RunStep("timed", {0}) EXCEPT !.timeout = TRUE, !.forks = TRUE]
      [] n = "stubborn" -> [RunStep("stubborn", {}) EXCEPT !.ignoreTerm = TRUE]
      \* each: a foreach whose body step declares its id
      [] n = "fe"       -> [ForeachStep("fe", 2, <<"echo">>) EXCEPT !.as = "job"]
      [] n = "echo"     -> RunStep("echo", {0, 4})
      [] n = "post"     -> RunStep("post", {0})
      \* nested: a foreach in a foreach, ids defaulted
      [] n = "fo"       -> [ForeachStep(NoId, 2, <<"fi", "tail">>) EXCEPT
                               !.as = "o", !.list = <<"x", "y">>]
      [] n = "fi"       -> [ForeachStep(NoId, 2, <<"leaf">>) EXCEPT !.as = "i"]
      [] n = "leaf"     -> RunStep(NoId, {0})
      [] n = "tail"     -> RunStep(NoId, {0})
      [] n = "last"     -> RunStep(NoId, {0})
      \* skips: when guards
      [] n = "w"        -> [RunStep("w", {0}) EXCEPT !.when = "false"]
      [] n = "w0"       -> [RunStep("w0", {0}) EXCEPT !.when = "zero"]
      [] n = "we"       -> [RunStep("we", {0}) EXCEPT !.when = "empty"]
      [] n = "v"        -> [RunStep("v", {0}) EXCEPT !.when = "true"]
      [] n = "vs"       -> [RunStep("vs", {0}) EXCEPT !.when = "str_false"]
      [] n = "b"        -> RunStep("b", {0})
      \* lenient: failing steps with continue_on_error
      [] n = "a_exit"   -> [RunStep("a_exit", {3}) EXCEPT !.coe = TRUE]
      [] n = "a_launch" -> [RunStep("a_launch", {0}) EXCEPT !.coe = TRUE, !.launch = "oserror"]
      [] n = "a_time"   -> [RunStep("a_time", {}) EXCEPT !.coe = TRUE, !.timeout = TRUE]
      [] n = "a_expr"   -> [RunStep("a_expr", {0}) EXCEPT !.coe = TRUE, !.render = "error"]
      [] n = "a_nest"   -> [PipelineStep("a_nest", <<"a_bad", "a_end">>) EXCEPT !.coe = TRUE]
      [] n = "a_bad"    -> [RunStep("a_bad", {0}) EXCEPT !.render = "error"]
      [] n = "a_end"    -> RunStep("a_end", {0})
      \* broken: structural errors under continue_on_error
      [] n = "u"        -> [RunStep("u", {}) EXCEPT !.kind = "unknown", !.coe = TRUE]
      [] n = "p"        -> [PipelineStep("p", <<>>) EXCEPT !.isList = FALSE, !.coe = TRUE]
      [] n = "q"        -> [ForeachStep("q", -1, <<>>) EXCEPT !.coe = TRUE]
      [] n = "fin"      -> RunStep("fin", {0})
      \* missing: a program that cannot be launched
      [] n = "m"        -> [RunStep("m", {0}) EXCEPT !.launch = "oserror"]
      \* clash: a declared id that a defaulted id repeats
      [] n = "same"     -> RunStep("step_2", {0})
      [] n = "auto"     -> RunStep(NoId, {0})
      \* partial: a failing step inside a pipeline step that continues
      [] n = "box"      -> [PipelineStep("box", <<"x", "y">>) EXCEPT !.coe = TRUE]
      [] n = "x"        -> RunStep("x", {0, 5})
      [] n = "y"        -> RunStep("y", {0})
      [] n = "z"        -> RunStep("z", {0})
      \* guards: a guard whose evaluation raises, under continue_on_error
      [] n = "ge"       -> [RunStep("ge", {0}) EXCEPT !.when = "error", !.coe = TRUE]
      [] n = "gbox"     -> [PipelineStep("gbox", <<"ge", "y">>) EXCEPT !.coe = TRUE]

\* An action of the document.  pipeKind: "list" | "absent" | "notlist";
\* hasRun: the action carries the run shorthand (run names its step).
Action(pipeline, onError, hasOnError) ==
    [pipeKind |-> "list", pipeline |-> pipeline, hasRun |-> FALSE, run |-> "",
     hasOnError |-> hasOnError, on_error |-> onError]

\* The documents the engine is constructed with.
ConfigNames ==
    {"slow", "wrapped", "guarded", "job", "tmpl", "timed", "stubborn",
     "each", "nested", "skips", "lenient", "broken", "missing", "clash",
     "partial", "okjob", "okempty", "invalid", "guards", "pair", "jobfail"}

Actions(c) ==
    CASE c = "slow" ->
           [slow |-> [pipeKind |-> "absent", pipeline |-> <<>>, hasRun |-> TRUE,
                      run |-> "slow_run", hasOnError |-> FALSE, on_error |-> <<>>]]
      [] c = "wrapped" ->
           [wrapped |-> Action(<<"outer">>, <<>>, FALSE)]
      [] c = "guarded" ->
           [guarded |-> Action(<<"outer", "after">>, <<>>, FALSE)]
      [] c = "job" ->
           [job |-> Action(<<"first", "main">>, <<"cleanup">>, TRUE)]
      [] c = "tmpl" ->
           [tmpl |-> Action(<<"bad">>, <<"tidy">>, TRUE)]
      [] c = "timed" ->
           [timed |-> Action(<<"timed">>, <<>>, FALSE)]
      [] c = "stubborn" ->
           [stubborn |-> Action(<<"stubborn", "after">>, <<>>, FALSE)]
      [] c = "each" ->
           [each |-> Action(<<"fe", "post">>, <<>>, FALSE)]
      [] c = "nested" ->
           [nested |-> Action(<<"fo", "last">>, <<>>, FALSE)]
      [] c = "skips" ->
           [skips |-> Action(<<"w", "w0", "we", "v", "vs", "b">>, <<>>, FALSE)]
      [] c = "lenient" ->
           [lenient |-> Action(<<"a_exit", "a_launch", "a_time", "a_expr", "a_nest", "b">>,
                               <<>>, FALSE)]
      [] c = "broken" ->
           [broken |-> Action(<<"u", "p", "q", "fin">>, <<>>, FALSE)]
      [] c = "missing" ->
           [missing |-> Action(<<"m">>, <<>>, FALSE)]
      [] c = "clash" ->
           [clash |-> Action(<<"same", "auto", "post">>, <<>>, FALSE)]
      [] c = "partial" ->
           [partial |-> Action(<<"box", "z">>, <<>>, FALSE)]
      [] c = "jobfail" ->
           [jobfail |-> Action(<<"main">>, <<"wipe">>, TRUE)]
      [] c = "okjob" ->
           [okjob |-> Action(<<"first">>, <<"cleanup">>, TRUE)]
      [] c = "okempty" ->
           [okempty |-> Action(<<"first">>, <<>>, TRUE)]
      [] c = "invalid" ->
           [good    |-> Action(<<"first">>, <<>>, FALSE),
            nokeys  |-> [pipeKind |-> "absent", pipeline |-> <<>>, hasRun |-> FALSE,
                         run |-> "", hasOnError |-> FALSE, on_error |-> <<>>],
            notlist |-> [pipeKind |-> "notlist", pipeline |-> <<>>, hasRun |-> FALSE,
                         run |-> "", hasOnError |-> FALSE, on_error |-> <<>>]]
      [] c = "guards" ->
           [gtop  |-> Action(<<"ge", "b">>, <<>>, FALSE),
            gnest |-> Action(<<"gbox", "z">>, <<>>, FALSE)]
      [] c = "pair" ->
           [left  |-> Action(<<"inner">>, <<>>, FALSE),
            right |-> Action(<<"after">>, <<>>, FALSE)]

\* The action ids the callers pass to run_action: the ids of the document
\* and, for the invalid document, an id it does not declare.
Requests(c) ==
    (DOMAIN Actions(c)) \cup (IF c = "invalid" THEN {"nope"} ELSE {})

\* The action ids passed to stop_action: the actions of the document that
\* can have a run.
StopTargets(c) ==
    {a \in DOMAIN Actions(c) :
        Actions(c)[a].pipeKind = "list" \/ Actions(c)[a].hasRun}

\* The hosts the engine runs on: os.name is "posix" or "nt" (lines 162,
\* 450 and 479).  The documents run by one caller whose programs ignore
\* SIGTERM, leave descendants or run under continue_on_error are run on
\* both, the others on a POSIX host.
Hosts(c) ==
    IF c \in {"stubborn", "timed", "guarded"} THEN {"posix", "nt"} ELSE {"posix"}

\* The threads that call run_action on the document: the documents with
\* one step, and the one with two actions, are run by both workers, the
\* others by one.
Callers(c) == IF c \in {"slow", "wrapped", "invalid", "pair"} THEN Workers ELSE {"w1"}

\* The action ids worker t passes to run_action: any the document is asked
\* for; on the document pair one worker runs left, the other right; on the
\* invalid document the second worker asks for what run_action rejects.
CallsOf(c, t) ==
    IF c = "pair" THEN (IF t = "w1" THEN {"left"} ELSE {"right"})
    ELSE IF c = "invalid" /\ t = "w2" THEN Requests(c) \ {"good"}
    ELSE Requests(c)

\* ------------------------------------------------------------------ state
VARIABLES
    config,             \* the document the engine was constructed with
    os_name,            \* os.name of the host: "posix" or "nt"
    cancel_events,      \* PipelineEngine._cancel_events: action id -> Event
    active_runs,        \* PipelineEngine._active_runs: action id -> count
    running_processes,  \* PipelineEngine._running_processes: action id -> list of Popen
    events,             \* the threading.Event objects created so far: id -> flag
    runs,               \* per worker: the frame of its run_action call
    procs,              \* per worker: the process its current run step spawned
    stops,              \* per stopper: the frame of its stop_action call
    log,                \* per worker: what the log callback received
    outcome,            \* per worker: how its run_action call ended
    hist,               \* per worker: history of the run (not program state)
    app,                \* per worker: App._run_action_worker and its run record
    child,              \* _run_command: the process writing to its output streams
    pipes,              \* _run_command: proc.stdout / proc.stderr
    readers,            \* _run_command: the _stream_output threads
    collectors,         \* _run_command: stdout_lines / stderr_lines
    out_log,            \* what the log callback received from the readers
    cmd,                \* the _run_command frame from the start of the readers on
    ser,                \* the serialize_argv frame
    tpl,                \* the _base_context / render_template frame
    store               \* the PresetService: its state and its file

\* The engine with its callers, and the output capture of one run step taken
\* by itself.
engine == <<config, os_name, cancel_events, active_runs, running_processes, events,
            runs, procs, stops, log, outcome, hist, app>>
capture == <<child, pipes, readers, collectors, out_log, cmd>>
pure == <<ser, tpl, store>>
others == <<capture, pure>>

vars == <<engine, others>>

NoEvent == 0
IsSet(e) == e # NoEvent /\ events[e]

\* ------------------------------------------------------------ exceptions
\* cls: the Python class; msg: the message text; at: the id of the step
\* that was executing when the exception was raised.
NoErr == [cls |-> "none", msg |-> <<>>, at |-> ""]
Err(cls, msg, at) == [cls |-> cls, msg |-> msg, at |-> at]

CancelledError(at) == Err("ActionCancelledError", <<"Action was stopped by user">>, at)
ExitError(sid, code) ==
    Err("EngineError", <<"Step", sid, "failed with exit code", code>>, sid)
ExpressionError(at) == Err("EngineError", <<"Expression evaluation failed">>, at)
LaunchError(at) == Err("OSError", <<"No such file or directory">>, at)
TimeoutError(at) == Err("TimeoutExpired", <<"timed out">>, at)
ConfigError(msg, at) == Err("EngineError", <<msg>>, at)

\* --------------------------------------------------- the _run_steps stack
\* One frame per active _run_steps call: its steps, the index of the step
\* being executed, that step's step_id, and for the body of a foreach the
\* index of the iteration; owner names the step whose body the call runs,
\* scope is the scope argument of the call.
Frame(steps, owner, iter, scope) ==
    [steps |-> steps, i |-> 1, sid |-> "", owner |-> owner, iter |-> iter,
     scope |-> scope]

\* Lines 374-377 with the index counted from 1.
LocalScopeOneBased(scope, step, index) ==
    Put(Put(scope, step.as, step.list[index + 1]), "loop", [index |-> index + 1])

\* Lines 374-377: the scope of iteration index of a foreach, a copy of the
\* enclosing scope with the alias and loop bound.
LocalScope(scope, step, index) ==
    Put(Put(scope, step.as, step.list[index + 1]), "loop", [index |-> index])

Top(st) == st[Len(st)]
Below(st) == SubSeq(st, 1, Len(st) - 1)
CurName(st) == Top(st).steps[Top(st).i]
CurStep(st) == StepDef(CurName(st))
NextStep(st) == [st EXCEPT ![Len(st)].i = @ + 1, ![Len(st)].sid = ""]

\* The for loops of _run_steps (and of a foreach) after the current step
\* ended: the stack whose top frame stands at the next step to execute,
\* <<>> when the outermost call has returned.
RECURSIVE Settle(_)
Settle(st) ==
    IF st = <<>> THEN <<>>
    ELSE IF Top(st).i <= Len(Top(st).steps) THEN st
    ELSE IF Len(st) = 1 THEN <<>>
    ELSE IF /\ StepDef(Top(st).owner).kind = "foreach"
            /\ Top(st).iter + 1 < StepDef(Top(st).owner).items
         THEN Settle(Append(Below(st),
                  [Top(st) EXCEPT !.i = 1, !.sid = "", !.iter = @ + 1,
                                  !.scope = LocalScope(Top(Below(st)).scope,
                                                       StepDef(Top(st).owner),
                                                       Top(st).iter + 1)]))
         ELSE Settle([Below(st) EXCEPT ![Len(st) - 1].i = @ + 1,
                                       ![Len(st) - 1].sid = ""])

\* An exception raised by the current step travels up: inside the try of a
\* step with continue_on_error it is logged and the loop continues;
\* otherwise it leaves the _run_steps call, into the try of the owner step.
RECURSIVE Unwind(_, _, _, _)
\* (UnwindNoReraise: the except clause without the raise of line 385.)
UnwindNoReraise(st, err, inTry, lg) ==
    IF st = <<>> THEN [stack |-> <<>>, log |-> lg, uncaught |-> TRUE]
    ELSE IF inTry
         THEN [stack |-> Settle(NextStep(st)),
               log |-> IF CurStep(st).coe
                       THEN Append(lg, <<"warn", Top(st).sid, err.cls>>) ELSE lg,
               uncaught |-> FALSE]
         ELSE Unwind(Below(st), err, TRUE, lg)

\* (UnwindSilent: the except clause without the log call of line 383.)
UnwindSilent(st, err, inTry, lg) ==
    IF st = <<>> THEN [stack |-> <<>>, log |-> lg, uncaught |-> TRUE]
    ELSE IF inTry /\ CurStep(st).coe
         THEN [stack |-> Settle(NextStep(st)), log |-> lg, uncaught |-> FALSE]
         ELSE Unwind(Below(st), err, TRUE, lg)

Unwind(st, err, inTry, lg) ==
    IF st = <<>> THEN [stack |-> <<>>, log |-> lg, uncaught |-> TRUE]
    ELSE IF inTry /\ CurStep(st).coe
         THEN [stack |-> Settle(NextStep(st)),
               log |-> Append(lg, <<"warn", Top(st).sid, err.cls>>),
               uncaught |-> FALSE]
         ELSE Unwind(Below(st), err, TRUE, lg)

\* Line 348: step_id = step.get("id", f"step_{len(step_results)+1}")
DefaultId(n) ==
    CASE n = 1 -> "step_1" [] n = 2 -> "step_2" [] n = 3 -> "step_3"
      [] n = 4 -> "step_4" [] n = 5 -> "step_5" [] n = 6 -> "step_6"
      [] n = 7 -> "step_7"
      [] OTHER -> "step_n"

StepId(step, step_results) ==
    IF step.id # NoId THEN step.id
    ELSE DefaultId(Cardinality(DOMAIN step_results) + 1)

\* ------------------------------------------------------------- processes
\* The process a worker's current run step spawned: n counts the worker's
\* spawns (<<worker, n>> identifies a Popen object), state is "none",
\* "running" or "exited", code the exit status, term whether a SIGTERM is
\* pending, force whether a forced termination (taskkill /F, TerminateProcess)
\* is pending, step the name of the step that spawned it, tree the state of
\* the descendants in its process group, which hold its output pipes
\* ("none", "alive" or "dead").
NoProc == [n |-> 0, state |-> "none", code |-> 0, term |-> FALSE, force |-> FALSE,
           step |-> "", tree |-> "none"]
Pid(t) == <<t, procs[t].n>>
\* proc.poll() is None
Alive(pid) == procs[pid[1]].n = pid[2] /\ procs[pid[1]].state = "running"

\* Lines 159-175, _terminate_process: nothing for a process that has
\* exited; on a POSIX host SIGTERM to its process group (os.killpg); on
\* Windows taskkill /PID pid /T /F, a forced termination of the process and
\* its descendants, and proc.terminate(), the forced termination of the
\* child, when the child has not exited by then.
TerminateProcess(ps, pid) ==
    IF ps[pid[1]].n = pid[2] /\ ps[pid[1]].state = "running"
    THEN IF os_name # "nt"
         THEN [ps EXCEPT ![pid[1]].term = TRUE]
         ELSE [ps EXCEPT ![pid[1]].force = TRUE]
    ELSE ps

\* ------------------------------------------------------------------ init
NoOutcome == [kind |-> "none", err |-> NoErr, results |-> EmptyDict]

IdleRun ==
    [pc |-> "idle", action |-> "", event |-> NoEvent, cancel_event |-> NoEvent,
     stack |-> <<>>, step_results |-> EmptyDict,
     exc |-> NoErr, exit_code |-> 0]

\* History of a run, for stating the properties:
\*   stopped      a stop_action set the run's cancel flag while the run was in
\*                its pipeline
\*   hit          ... while it was inside a run step (no continue_on_error, no
\*                timeout_ms) whose process was still running
\*   rival        another run of the same action started after stopped
\*   interrupted  _run_command raised the cancellation error
\*   lateStep     a step of the pipeline went on to launch its process
\*                although it started after stopped
\*   lateRun      the run started while the action's cancel flag was set
\*   failName     the step at which the pipeline failed uncaught
\*   failCount    the number of results when that step began
\*   atFail       the result map at that moment
\*   lastExit     step and exit code of the last process of the pipeline
\*                that ran to its end
\*   trail        the run steps in the order they began ("start", with the
\*                scope of the step) and produced a StepResult ("exit")
\*   finished     the StepResults produced so far
\*   blind        a step began while the result map lacked a StepResult
\*                produced before
\*   timedOut     the step that the deadline check failed
\*   leak         the process was running at that check and its descendants
\*                were alive after the kill
\*   structural   the step that was dispatched and found to be of unknown
\*                type, or a pipeline step whose value is not a list
NoHist ==
    [stopped |-> FALSE, hit |-> FALSE, rival |-> FALSE,
     interrupted |-> FALSE, lateStep |-> FALSE, lateRun |-> FALSE,
     failName |-> "", failCount |-> 0, atFail |-> EmptyDict,
     lastExit |-> <<"", 0>>,
     trail |-> <<>>, finished |-> {}, blind |-> FALSE,
     timedOut |-> "", leak |-> FALSE, structural |-> ""]

\* The worker thread of a run and its run record: thread "idle" | "running"
\* | "ended" | "died"; after_calls: the calls it scheduled on the Tk loop.
IdleApp == [thread |-> "idle", after_calls |-> <<>>]

IdleStop == [pc |-> "idle", action |-> "", event |-> NoEvent, processes |-> <<>>]

\* The streams of a process.
Streams == {"stdout", "stderr"}

\* The engine after construction, no caller yet.
EngineInit ==
    /\ cancel_events = EmptyDict
    /\ active_runs = EmptyDict
    /\ running_processes = EmptyDict
    /\ events = <<>>
    /\ runs = [t \in Workers |-> IdleRun]
    /\ procs = [t \in Workers |-> NoProc]
    /\ stops = [s \in Stoppers |-> IdleStop]
    /\ log = [t \in Workers |-> <<>>]
    /\ outcome = [t \in Workers |-> NoOutcome]
    /\ hist = [t \in Workers |-> NoHist]
    /\ app = [t \in Workers |-> IdleApp]

\* No call of serialize_argv or render_template is under way, and no
\* PresetService exists.
PureIdle ==
    /\ ser = [pc |-> "none"]
    /\ tpl = [pc |-> "none"]
    /\ store = [pc |-> "none"]

\* No run step is capturing output.
CaptureIdle ==
    /\ child = [state |-> "none", todo |-> [n \in Streams |-> <<>>],
                wrote |-> [n \in Streams |-> <<>>]]
    /\ pipes = [n \in Streams |-> [data |-> <<>>, closed |-> TRUE, newline |-> "LF"]]
    /\ readers = [n \in Streams |-> [pc |-> "none", buffer |-> <<>>]]
    /\ collectors = [n \in Streams |-> <<>>]
    /\ out_log = <<>>
    /\ cmd = [pc |-> "none"]

Init ==
    /\ config \in ConfigNames
    /\ os_name \in Hosts(config)
    /\ EngineInit
    /\ CaptureIdle
    /\ PureIdle

ActionIds == DOMAIN Actions(config)
NoAction ==
    [pipeKind |-> "absent", pipeline |-> <<>>, hasRun |-> FALSE, run |-> "",
     hasOnError |-> FALSE, on_error |-> <<>>]
ActionOf(t) ==
    IF runs[t].action \in ActionIds THEN Actions(config)[runs[t].action] ELSE NoAction

Registered(t) == runs[t].pc \notin {"idle", "done"}

\* ------------------------------------------------------ leaving the run
\* Lines 321-333: an exception that leaves the try of run_action goes
\* through its finally to the caller, whether or not the action carries an
\* on_error key: run_action never reads that key.
\* (PropagateSwallowed: the exception caught and dropped in run_action.)
PropagateSwallowed(r, err) == [r EXCEPT !.pc = "finish", !.exc = NoErr, !.stack = <<>>]

Propagate(r, err) == [r EXCEPT !.pc = "finish", !.exc = err, !.stack = <<>>]

\* The run after the current step raised err (inTry: inside the try block
\* of the step, lines 356-385).
Raised(t, r, err, inTry) ==
    LET u == Unwind(r.stack, err, inTry, log[t])
    IN  IF u.uncaught
        THEN [run |-> Propagate(r, err), log |-> u.log, uncaught |-> TRUE]
        ELSE [run |-> [r EXCEPT !.stack = u.stack,
                                !.pc = IF u.stack = <<>> THEN "finish" ELSE "top"],
              log |-> u.log]

\* The rendered guard values Python's bool() maps to False.
FalsyValues == {"false", "zero", "empty"}

GuardFalseOnly(when) == when = "false"

\* Line 351: not bool(render_template(step["when"], evaluator)).
GuardFalsy(when) == when \in FalsyValues

\* The run after the current step ended without raising.
Continued(r) ==
    LET st == Settle(NextStep(r.stack))
    IN  [r EXCEPT !.stack = st, !.pc = IF st = <<>> THEN "finish" ELSE "top"]

\* The history after the step of run r (before the step) led to res: an
\* exception that left the outermost _run_steps call is a failure.
HistFail(h, r, res) ==
    IF "uncaught" \in DOMAIN res
    THEN [h EXCEPT !.failName = CurName(r.stack),
                   !.failCount = Cardinality(DOMAIN r.step_results),
                   !.atFail = res.run.step_results]
    ELSE h

\* ------------------------------------------------------------ run_action
\* Lines 302-323: validation, registration under the lock, entry into the
\* pipeline.  A worker starts after the workers before it (workers
\* are interchangeable).
\* Line 319 with the count set instead of incremented.
ActiveAfterStartNoCount(active, a) == Put(active, a, 1)

\* Line 319: one more active run of the action.
ActiveAfterStart(active, a) == Put(active, a, Get(active, a, 0) + 1)

\* Line 327 with a count that never reaches zero.
RemainingKept(active, a) == 1

\* Line 327 with a count that always reaches zero.
RemainingNone(active, a) == 0

\* Line 327: the active runs left when this one ends.
Remaining(active, a) == Get(active, a, 1) - 1

Pipeline(a) ==
    IF a.pipeKind = "absent" /\ a.hasRun THEN <<a.run>> ELSE a.pipeline

\* ------------------------------------------------------------ the worker
\* app.py lines 881-884: the except clauses of _run_action_worker, by the
\* class of the exception: "cancelled", "failed", or "uncaught" when no
\* clause matches (the exception ends the worker thread).
Handler(cls) ==
    IF cls = "ActionCancelledError" THEN "cancelled"
    ELSE IF cls \in {"EngineError", "OSError", "ValueError", "TypeError"}
    THEN "failed"
    ELSE "uncaught"

\* The call of _finish_run(run_id, success, results, error, cancelled) the
\* worker schedules, with the number of log callbacks scheduled before it.
FinishCall(success, results, error, cancelled, logged) ==
    [fn |-> "_finish_run", success |-> success, results |-> results,
     error |-> error, cancelled |-> cancelled, logged |-> logged]

\* app.py lines 878-884: run_action has returned or raised with outcome o
\* after n logged lines; the worker schedules _finish_run on the Tk loop, or
\* dies of an exception no except clause matches.  The log callbacks (line
\* 876) were scheduled one per logged line, in order, while the run went
\* on.
WorkerEnd(w, o, n) ==
    IF o.kind = "return"
    THEN [w EXCEPT !.thread = "ended", !.after_calls =
             Append(@, FinishCall(TRUE, <<o.results>>, <<>>, FALSE, n))]
    ELSE IF Handler(o.err.cls) = "cancelled"
    THEN [w EXCEPT !.thread = "ended", !.after_calls =
             Append(@, FinishCall(FALSE, <<>>, o.err.msg, TRUE, n))]
    ELSE IF Handler(o.err.cls) = "failed"
    THEN [w EXCEPT !.thread = "ended", !.after_calls =
             Append(@, FinishCall(FALSE, <<>>, o.err.msg, FALSE, n))]
    ELSE [w EXCEPT !.thread = "died"]

\* Lines 303-311 with the test of the pipeline left out.
RejectsUnknownOnly(actions, a) ==
    IF a \notin DOMAIN actions THEN "Unknown action" ELSE ""

\* Lines 303-311: the message run_action raises before it registers the
\* run ("": none).  An action with neither pipeline nor run has pipeline
\* None, which is not a list.
Rejects(actions, a) ==
    IF a \notin DOMAIN actions THEN "Unknown action"
    ELSE IF actions[a].pipeKind = "notlist"
            \/ (actions[a].pipeKind = "absent" /\ ~actions[a].hasRun)
    THEN "action.pipeline must be a list"
    ELSE ""

RunAction(t, a) ==
    /\ runs[t].pc = "idle"
    /\ t \in Callers(config)
    /\ \A u \in Earlier(t) : runs[u].pc # "idle"
    /\ IF Rejects(Actions(config), a) = "Unknown action"
       THEN /\ runs' = [runs EXCEPT ![t].pc = "done", ![t].action = a]
            /\ outcome' = [outcome EXCEPT ![t].kind = "raise",
                              ![t].err = ConfigError("Unknown action", "")]
            /\ UNCHANGED <<cancel_events, active_runs, events, hist>>
       ELSE IF Rejects(Actions(config), a) # ""
       THEN /\ runs' = [runs EXCEPT ![t].pc = "done", ![t].action = a]
            /\ outcome' = [outcome EXCEPT ![t].kind = "raise",
                              ![t].err = ConfigError("action.pipeline must be a list", "")]
            /\ UNCHANGED <<cancel_events, active_runs, events, hist>>
       ELSE LET old == Get(cancel_events, a, NoEvent)
                event == IF old = NoEvent THEN Len(events) + 1 ELSE old
                st == Settle(<<Frame(Pipeline(Actions(config)[a]), "", 0, EmptyDict)>>)
            IN  /\ cancel_events' = Put(cancel_events, a, event)
                /\ events' = IF old = NoEvent THEN Append(events, FALSE)
                             ELSE [events EXCEPT ![event] = FALSE]
                /\ active_runs' = ActiveAfterStart(active_runs, a)
                /\ runs' = [runs EXCEPT ![t] =
                       [IdleRun EXCEPT !.pc = IF st = <<>> THEN "finish" ELSE "top",
                                       !.action = a, !.event = event,
                                       !.cancel_event = event, !.stack = st]]
                /\ hist' = [u \in Workers |->
                       IF u = t
                       THEN [hist[u] EXCEPT !.lateRun = IsSet(old)]
                       ELSE IF runs[u].action = a /\ Registered(u) /\ hist[u].stopped
                       THEN [hist[u] EXCEPT !.rival = TRUE]
                       ELSE hist[u]]
                /\ UNCHANGED outcome
    /\ UNCHANGED <<config, os_name, running_processes, procs, stops, log>>
    /\ app' = [app EXCEPT ![t].thread = "running"]
    /\ UNCHANGED others

\* ------------------------------------------------------------ _run_steps
\* Line 351 moved into the try block of the step.
GuardRaiseInTry(t, r, sid) ==
    Raised(t, [r EXCEPT !.stack[Len(r.stack)].sid = sid], ExpressionError(sid), TRUE)

\* Line 351: render_template(step["when"], evaluator) raises; the line
\* stands before the try of line 356, so the error leaves the _run_steps
\* call.
GuardRaise(t, r, sid) == Raised(t, r, ExpressionError(sid), FALSE)

\* Lines 345-380, from the cancel check at the top of the step to the
\* dispatch on the step's kind; a run step goes on to Popen.
StepTop(t) ==
    /\ runs[t].pc = "top"
    /\ LET r == runs[t]
           step == CurStep(r.stack)
           sid == StepId(step, r.step_results)
           rs == [r EXCEPT !.stack[Len(r.stack)].sid = sid]
           scope == Top(r.stack).scope
           body == [r EXCEPT !.stack =
                       Settle(Append(rs.stack,
                           Frame(step.body, CurName(r.stack), 0,
                                 IF step.kind = "foreach" /\ step.items > 0
                                 THEN LocalScope(scope, step, 0) ELSE scope)))]
           res ==
             IF IsSet(r.cancel_event)
               THEN Raised(t, r, CancelledError(sid), FALSE)
             ELSE IF step.when = "error"
               THEN GuardRaise(t, r, sid)
             ELSE IF GuardFalsy(step.when)
               THEN [run |-> Continued(r), log |-> Append(log[t], <<"skip", sid>>)]
             ELSE IF step.kind = "run"
               THEN IF step.render = "error"
                    THEN Raised(t, rs, ExpressionError(sid), TRUE)
                    ELSE [run |-> [rs EXCEPT !.pc = "popen"],
                          log |-> Append(log[t], <<"run", sid>>)]
             ELSE IF step.kind = "pipeline"
               THEN IF ~step.isList
                    THEN Raised(t, rs, ConfigError("pipeline step requires list", sid), TRUE)
                    ELSE [run |-> [body EXCEPT !.pc =
                                     IF body.stack = <<>> THEN "finish" ELSE "top"],
                          log |-> log[t]]
             ELSE IF step.kind = "foreach"
               THEN IF step.items < 0
                    THEN Raised(t, rs, ConfigError("foreach.in must evaluate to list", sid), TRUE)
                    ELSE IF step.items = 0
                    THEN [run |-> Continued(rs), log |-> log[t]]
                    ELSE [run |-> [body EXCEPT !.pc =
                                     IF body.stack = <<>> THEN "finish" ELSE "top"],
                          log |-> log[t]]
             ELSE Raised(t, rs, ConfigError("Unknown step type", sid), TRUE)
       IN  /\ runs' = [runs EXCEPT ![t] = res.run]
           /\ log' = [log EXCEPT ![t] = res.log]
           /\ hist' = [hist EXCEPT ![t] =
                 [HistFail(hist[t], r, res) EXCEPT
                    !.lateStep = @ \/ (hist[t].stopped /\ res.run.pc = "popen"),
                    !.blind = @ \/ (/\ ~IsSet(r.cancel_event)
                                    /\ \E f \in hist[t].finished :
                                          \A k \in DOMAIN r.step_results :
                                             r.step_results[k] # f),
                    !.structural =
                        IF /\ ~IsSet(r.cancel_event)
                           /\ step.when \notin FalsyValues \cup {"error"}
                           /\ \/ step.kind \notin {"run", "pipeline", "foreach"}
                              \/ (step.kind = "pipeline" /\ ~step.isList)
                        THEN CurName(r.stack) ELSE @,
                    !.trail = IF res.run.pc = "popen"
                              THEN Append(@, [ev |-> "start",
                                              name |-> CurName(r.stack), sid |-> sid,
                                              scope |-> scope, code |-> 0])
                              ELSE @]]
    /\ UNCHANGED <<config, os_name, cancel_events, active_runs, running_processes, events,
                   procs, stops, outcome>>
    /\ UNCHANGED <<app, others>>

\* ---------------------------------------------------------- _run_command
\* Lines 444-453: Popen.
Spawn(t) ==
    /\ runs[t].pc = "popen"
    /\ IF CurStep(runs[t].stack).launch = "oserror"
       THEN LET res == Raised(t, runs[t], LaunchError(Top(runs[t].stack).sid), TRUE)
            IN  /\ runs' = [runs EXCEPT ![t] = res.run]
                /\ log' = [log EXCEPT ![t] = res.log]
                /\ hist' = [hist EXCEPT ![t] = HistFail(hist[t], runs[t], res)]
                /\ UNCHANGED procs
       ELSE /\ procs' = [procs EXCEPT ![t] =
                   [n |-> procs[t].n + 1, state |-> "running", code |-> 0,
                    term |-> FALSE, force |-> FALSE,
                    step |-> CurName(runs[t].stack),
                    tree |-> IF CurStep(runs[t].stack).forks THEN "alive" ELSE "none"]]
            /\ runs' = [runs EXCEPT ![t].pc = "register"]
            /\ UNCHANGED <<log, hist>>
    /\ UNCHANGED <<config, os_name, cancel_events, active_runs, running_processes, events,
                   stops, outcome>>
    /\ UNCHANGED <<app, others>>

\* Lines 454-455: the handle is appended to the action's list.
Register(t) ==
    /\ runs[t].pc = "register"
    /\ running_processes' =
           Put(running_processes, runs[t].action,
               Append(Get(running_processes, runs[t].action, <<>>), Pid(t)))
    /\ runs' = [runs EXCEPT ![t].pc = "poll"]
    /\ UNCHANGED <<config, os_name, cancel_events, active_runs, events, procs, stops, log,
                   outcome, hist>>
    /\ UNCHANGED <<app, others>>

\* Lines 473-475: the cancel check of a poll; a set flag calls
\* _terminate_process.
PollCancel(t) ==
    /\ runs[t].pc = "poll"
    /\ IF IsSet(runs[t].cancel_event)
       THEN /\ procs' = TerminateProcess(procs, Pid(t))
            /\ runs' = [runs EXCEPT ![t].pc = "grace"]
       ELSE /\ runs' = [runs EXCEPT ![t].pc =
                   IF CurStep(runs[t].stack).timeout THEN "deadline" ELSE "wait"]
            /\ UNCHANGED procs
    /\ UNCHANGED <<config, os_name, cancel_events, active_runs, running_processes, events,
                   stops, log, outcome, hist>>
    /\ UNCHANGED <<app, others>>

\* Lines 476-487: proc.wait(timeout=1); when it times out, SIGKILL to the
\* group on a POSIX host (os.killpg) and proc.kill() on Windows, which ends
\* the child only, with the exit code TerminateProcess is given; after
\* proc.wait() the cancellation error.
GraceWait(t) ==
    /\ runs[t].pc = "grace"
    /\ procs' = IF procs[t].state # "running" THEN procs
                ELSE IF os_name # "nt"
                THEN [procs EXCEPT ![t].state = "exited", ![t].code = -SIGKILL,
                                   ![t].tree = IF @ = "alive" THEN "dead" ELSE @]
                ELSE [procs EXCEPT ![t].state = "exited", ![t].code = 1]
    /\ runs' = [runs EXCEPT ![t].pc = "cleanup",
                            ![t].exc = CancelledError(Top(runs[t].stack).sid)]
    /\ hist' = [hist EXCEPT ![t].interrupted = TRUE]
    /\ UNCHANGED <<config, os_name, cancel_events, active_runs, running_processes, events,
                   stops, log, outcome>>
    /\ UNCHANGED <<app, others>>

\* Lines 489-492: the deadline check of a poll of a step with timeout_ms;
\* whether the deadline has passed is the clock's choice.  proc.kill()
\* ends the child only (SIGKILL, on Windows TerminateProcess with exit code
\* 1), proc.wait() reaps it.
PollDeadline(t) ==
    /\ runs[t].pc = "deadline"
    /\ \E reached \in BOOLEAN :
         IF reached
         THEN /\ procs' = IF procs[t].state = "running"
                          THEN [procs EXCEPT ![t].state = "exited",
                                   ![t].code = IF os_name # "nt" THEN -SIGKILL ELSE 1]
                          ELSE procs
              /\ runs' = [runs EXCEPT ![t].pc = "cleanup",
                                      ![t].exc = TimeoutError(Top(runs[t].stack).sid)]
              /\ hist' = [hist EXCEPT
                    ![t].timedOut = CurName(runs[t].stack),
                    ![t].leak = @ \/ (procs[t].state = "running"
                                      /\ procs[t].tree = "alive")]
         ELSE /\ runs' = [runs EXCEPT ![t].pc = "wait"]
              /\ UNCHANGED <<procs, hist>>
    /\ UNCHANGED <<config, os_name, cancel_events, active_runs, running_processes, events,
                   stops, log, outcome>>
    /\ UNCHANGED <<app, others>>

\* Lines 494-500: proc.wait(timeout=0.1) times out while the process runs;
\* after it returned, a set cancel flag raises, otherwise the loop ends.
WaitOutcome(state, flag) ==
    IF state = "running" THEN "timeout"
    ELSE IF flag THEN "cancelled"
    ELSE "exit"

PollWait(t) ==
    /\ runs[t].pc = "wait"
    /\ IF WaitOutcome(procs[t].state, IsSet(runs[t].cancel_event)) = "timeout"
       THEN /\ runs' = [runs EXCEPT ![t].pc = "poll"]
            /\ UNCHANGED hist
       ELSE IF WaitOutcome(procs[t].state, IsSet(runs[t].cancel_event)) = "cancelled"
       THEN /\ runs' = [runs EXCEPT ![t].pc = "cleanup",
                           ![t].exit_code = procs[t].code,
                           ![t].exc = CancelledError(Top(runs[t].stack).sid)]
            /\ hist' = [hist EXCEPT ![t].interrupted = TRUE]
       ELSE /\ runs' = [runs EXCEPT ![t].pc = "cleanup",
                           ![t].exit_code = procs[t].code]
            /\ UNCHANGED hist
    /\ UNCHANGED <<config, os_name, cancel_events, active_runs, running_processes, events,
                   procs, stops, log, outcome>>
    /\ UNCHANGED <<app, others>>

\* Line 360: a run step fails on a non-zero exit code unless it continues
\* on error.
StepFailed(exit_code, continue_on_error) == exit_code # 0 /\ ~continue_on_error

\* StepResult: the exit code; proc names the process whose stdout, stderr
\* and duration_ms the result holds.
StepResult(exit_code, proc) == [exit_code |-> exit_code, proc |-> proc]

\* Lines 501-518 and 359-361: the finally of _run_command joins the reader
\* threads, which end at the end of file of the pipes, when no process of
\* the tree holds them any more (output is captured unless the step says
\* otherwise), and removes the handle under the lock; the exception goes
\* on, or the StepResult is recorded under the step id and a non-zero exit
\* code raises.  An exception that a step with continue_on_error is to
\* catch has reached its except clause (line 381) and is still in flight:
\* the log call of line 383 is a later step of the thread (Except).
Cleanup(t) ==
    /\ runs[t].pc = "cleanup"
    /\ procs[t].tree # "alive"
    /\ running_processes' =
           IF Has(running_processes, runs[t].action)
           THEN [running_processes EXCEPT ![runs[t].action] = ListRemove(@, Pid(t))]
           ELSE running_processes
    /\ LET r == [runs[t] EXCEPT !.exc = NoErr]
           sid == Top(r.stack).sid
           rec == [r EXCEPT !.step_results =
                      Put(r.step_results, sid, StepResult(r.exit_code, procs[t].n))]
           err == IF runs[t].exc # NoErr THEN runs[t].exc
                  ELSE IF StepFailed(r.exit_code, CurStep(r.stack).coe)
                  THEN ExitError(sid, r.exit_code)
                  ELSE NoErr
           raising == IF runs[t].exc # NoErr THEN r ELSE rec
           res == IF err = NoErr
                    THEN [run |-> Continued(rec), log |-> log[t]]
                  ELSE IF "uncaught" \in DOMAIN Raised(t, raising, err, TRUE)
                    THEN Raised(t, raising, err, TRUE)
                  ELSE [run |-> [raising EXCEPT !.pc = "except", !.exc = err],
                        log |-> log[t]]
       IN  /\ runs' = [runs EXCEPT ![t] = res.run]
           /\ log' = [log EXCEPT ![t] = res.log]
           /\ hist' = [hist EXCEPT ![t] =
                 [HistFail(hist[t], r, res) EXCEPT
                    !.lastExit = IF runs[t].exc = NoErr
                                 THEN <<CurName(r.stack), procs[t].code>> ELSE @,
                    !.finished = IF runs[t].exc = NoErr
                                 THEN @ \cup {StepResult(procs[t].code, procs[t].n)}
                                 ELSE @,
                    !.trail = IF runs[t].exc = NoErr
                              THEN Append(@, [ev |-> "exit",
                                              name |-> CurName(r.stack), sid |-> sid,
                                              scope |-> Top(r.stack).scope,
                                              code |-> procs[t].code])
                              ELSE @]]
    /\ procs' = [procs EXCEPT ![t] = [NoProc EXCEPT !.n = procs[t].n]]
    /\ UNCHANGED <<config, os_name, cancel_events, active_runs, events, stops, outcome>>
    /\ UNCHANGED <<app, others>>

\* Lines 381-385: the except clause of the step with continue_on_error
\* that catches the exception _run_command raised: the warning is logged
\* and the loop goes on with the step's next sibling.
Except(t) ==
    /\ runs[t].pc = "except"
    /\ LET res == Raised(t, [runs[t] EXCEPT !.exc = NoErr], runs[t].exc, TRUE)
       IN  /\ runs' = [runs EXCEPT ![t] = res.run]
           /\ log' = [log EXCEPT ![t] = res.log]
    /\ UNCHANGED <<config, os_name, cancel_events, active_runs, running_processes, events,
                   procs, stops, outcome, hist>>
    /\ UNCHANGED <<app, others>>

\* Lines 324-333: the return (or the exception) passes the finally, which
\* releases the registration under the lock; run_action has ended, and
\* its caller holds the returned map or the exception.
Finish(t) ==
    /\ runs[t].pc = "finish"
    /\ LET a == runs[t].action
           remaining == Remaining(active_runs, a)
       IN  IF remaining <= 0
           THEN /\ active_runs' = Pop(active_runs, a)
                /\ cancel_events' = Pop(cancel_events, a)
                /\ running_processes' = Pop(running_processes, a)
           ELSE /\ active_runs' = Put(active_runs, a, remaining)
                /\ UNCHANGED <<cancel_events, running_processes>>
    /\ outcome' = [outcome EXCEPT ![t] =
           IF runs[t].exc = NoErr
           THEN [NoOutcome EXCEPT !.kind = "return",
                                  !.results = runs[t].step_results]
           ELSE [NoOutcome EXCEPT !.kind = "raise", !.err = runs[t].exc]]
    /\ runs' = [runs EXCEPT ![t].pc = "done"]
    /\ UNCHANGED <<config, os_name, events, procs, stops, log, hist>>
    /\ UNCHANGED <<app, others>>

\* app.py lines 878-884, _run_action_worker after run_action ended: the
\* thread schedules _finish_run on the Tk loop and ends, or dies of an
\* exception that no except clause matches.
RunActionWorker(t) ==
    /\ runs[t].pc = "done"
    /\ app[t].thread = "running"
    /\ app' = [app EXCEPT ![t] = WorkerEnd(@, outcome[t], Len(log[t]))]
    /\ UNCHANGED <<config, os_name, cancel_events, active_runs, running_processes, events,
                   runs, procs, stops, log, outcome, hist>>
    /\ UNCHANGED others

\* -------------------------------------------------------- the processes
\* A running program ends by itself with one of its exit codes.
ProcExit(t) ==
    /\ procs[t].state = "running"
    /\ \E c \in StepDef(procs[t].step).codes :
         procs' = [procs EXCEPT ![t].state = "exited", ![t].code = c]
    /\ UNCHANGED <<config, os_name, cancel_events, active_runs, running_processes, events,
                   runs, stops, log, outcome, hist>>
    /\ UNCHANGED <<app, others>>

\* A pending SIGTERM, sent to the process group, ends a program that does
\* not ignore it, and its descendants; a pending forced termination of the
\* tree ends them whatever the program does.
ProcDie(t) ==
    /\ procs[t].state = "running"
    /\ IF procs[t].force THEN TRUE
       ELSE procs[t].term /\ ~StepDef(procs[t].step).ignoreTerm
    /\ procs' = [procs EXCEPT ![t].state = "exited",
                              ![t].code = IF procs[t].force THEN 1 ELSE -SIGTERM,
                              ![t].tree = IF @ = "alive" THEN "dead" ELSE @]
    /\ UNCHANGED <<config, os_name, cancel_events, active_runs, running_processes, events,
                   runs, stops, log, outcome, hist>>
    /\ UNCHANGED <<app, others>>

\* The descendants of the program end by themselves and close their ends
\* of the pipes.
TreeExit(t) ==
    /\ procs[t].tree = "alive"
    /\ procs' = [procs EXCEPT ![t].tree = "dead"]
    /\ UNCHANGED <<config, os_name, cancel_events, active_runs, running_processes,
                   events, runs, stops, log, outcome, hist>>
    /\ UNCHANGED <<app, others>>

\* ----------------------------------------------------------- stop_action
\* Line 151 taking the Event of another action when one has a run.
StopAnyEvent(events_of, a) ==
    LET rest == DOMAIN events_of \ {a}
    IN  IF rest # {} THEN events_of[CHOOSE b \in rest : TRUE]
        ELSE Get(events_of, a, NoEvent)

\* Line 151: self._cancel_events.get(action_id).
StopEvent(events_of, a) == Get(events_of, a, NoEvent)

\* Lines 150-152: event and process list are read under the lock.  The
\* calls of stop_action follow one another: the program makes them on the
\* Tk loop (app.py lines 943-951), one thread, so a call begins after the
\* call before it has returned.
StopSnapshot(s, a) ==
    /\ stops[s].pc = "idle"
    /\ IF s = 1 THEN TRUE ELSE stops[s - 1].pc = "done"
    /\ stops' = [stops EXCEPT ![s] =
           [pc |-> "set", action |-> a,
            event |-> StopEvent(cancel_events, a),
            processes |-> Get(running_processes, a, <<>>)]]
    /\ UNCHANGED <<config, os_name, cancel_events, active_runs, running_processes, events,
                   runs, procs, log, outcome, hist>>
    /\ UNCHANGED <<app, others>>

\* Lines 153-154: event.set().
StopSet(s) ==
    /\ stops[s].pc = "set"
    /\ events' = IF stops[s].event # NoEvent
                 THEN [events EXCEPT ![stops[s].event] = TRUE]
                 ELSE events
    /\ stops' = [stops EXCEPT ![s].pc = IF stops[s].processes = <<>> THEN "done" ELSE "term"]
    /\ hist' = [t \in Workers |->
           IF /\ stops[s].event # NoEvent
              /\ Registered(t)
              /\ runs[t].cancel_event = stops[s].event
           THEN [hist[t] EXCEPT
                   !.stopped = TRUE,
                   !.hit = @ \/ (/\ runs[t].pc \in {"register", "poll", "wait"}
                                  /\ procs[t].state = "running"
                                  /\ ~CurStep(runs[t].stack).coe
                                  /\ ~CurStep(runs[t].stack).timeout)]
           ELSE hist[t]]
    /\ UNCHANGED <<config, os_name, cancel_events, active_runs, running_processes,
                   runs, procs, log, outcome>>
    /\ UNCHANGED <<app, others>>

\* Lines 155-157: one turn of the loop over the snapshot.
StopTerminate(s) ==
    /\ stops[s].pc = "term"
    /\ procs' = TerminateProcess(procs, Head(stops[s].processes))
    /\ stops' = [stops EXCEPT ![s].processes = Tail(@),
                              ![s].pc = IF Tail(stops[s].processes) = <<>>
                                        THEN "done" ELSE "term"]
    /\ UNCHANGED <<config, os_name, cancel_events, active_runs, running_processes, events,
                   runs, log, outcome, hist>>
    /\ UNCHANGED <<app, others>>

\* ------------------------------------------------------------------ spec
Next ==
    \/ \E t \in Workers : \E a \in CallsOf(config, t) : RunAction(t, a)
    \/ \E t \in Workers : StepTop(t)
    \/ \E t \in Workers : Spawn(t)
    \/ \E t \in Workers : Register(t)
    \/ \E t \in Workers : PollCancel(t)
    \/ \E t \in Workers : PollDeadline(t)
    \/ \E t \in Workers : PollWait(t)
    \/ \E t \in Workers : GraceWait(t)
    \/ \E t \in Workers : Cleanup(t)
    \/ \E t \in Workers : Except(t)
    \/ \E t \in Workers : Finish(t)
    \/ \E t \in Workers : RunActionWorker(t)
    \/ \E t \in Workers : ProcExit(t)
    \/ \E t \in Workers : ProcDie(t)
    \/ \E t \in Workers : TreeExit(t)
    \/ \E s \in Stoppers : \E a \in StopTargets(config) : StopSnapshot(s, a)
    \/ \E s \in Stoppers : StopSet(s)
    \/ \E s \in Stoppers : StopTerminate(s)

Spec == Init /\ [][Next]_vars

\* ------------------------------------------------------------ properties
Done(t) == runs[t].pc = "done"

Returned(t) == Done(t) /\ outcome[t].kind = "return"

RaisedCls(t, cls) == Done(t) /\ outcome[t].kind = "raise" /\ outcome[t].err.cls = cls

\* The handles of run t's processes that the registry still holds.
HandlesOf(t) ==
    {a \in DOMAIN running_processes :
        \E i \in 1..Len(running_processes[a]) : running_processes[a][i][1] = t}

\* C1: a run whose action has no on_error, stopped while one of its run
\* steps (no continue_on_error, no timeout) had its process running, and
\* with no other run of the action started afterwards, ends by raising
\* ActionCancelledError and leaves no handle of its processes registered.
C1_StopRaisesCancelled ==
    \A t \in Workers :
        (Done(t) /\ hist[t].hit /\ ~hist[t].rival /\ ~ActionOf(t).hasOnError)
            => /\ RaisedCls(t, "ActionCancelledError")
               /\ HandlesOf(t) = {}

\* C2: a run whose pipeline was interrupted by a stop never ends as an
\* ordinary success: it does not return the map of its step results.
C2_StopNeverOrdinarySuccess ==
    \A t \in Workers :
        (Done(t) /\ hist[t].interrupted) => ~Returned(t)

\* C3: after stop_action has set the cancel flag of a run's action, no step
\* of the run's pipeline goes on to launch a process.
C3_NoLaunchAfterStop ==
    \A t \in Workers : ~hist[t].lateStep

\* C4: when two runs of one action are active at the same time and a stop
\* reaches both inside a running run step, with no run of the action
\* started afterwards, both end by raising ActionCancelledError.
C4_StopCancelsEveryRun ==
    \A t, u \in Workers :
        (/\ t # u
         /\ Done(t) /\ Done(u)
         /\ runs[t].action = runs[u].action
         /\ hist[t].hit /\ hist[u].hit
         /\ ~hist[t].rival /\ ~hist[u].rival)
            => /\ RaisedCls(t, "ActionCancelledError")
               /\ RaisedCls(u, "ActionCancelledError")

\* C5: a run that starts while the cancel flag of its action is set (a stop
\* was issued and an earlier run has not finished reacting to it) is
\* cancelled as well.
C5_LateRunCancelled ==
    \A t \in Workers :
        (Done(t) /\ hist[t].lateRun) => RaisedCls(t, "ActionCancelledError")

\* The runs of action a that have registered and not yet finished.
ActiveOf(a) == {t \in Workers : Registered(t) /\ runs[t].action = a}

\* C6: the registry is reference-counted: _active_runs[A] is the number of
\* registered, unfinished runs of A and at least 1 when present; these runs
\* share the Event stored in _cancel_events[A]; A has an entry in
\* _active_runs and in _cancel_events exactly when that number is at least
\* 1, and none in _running_processes when it is 0.
C6_RegistryRefCounted ==
    \A a \in ActionIds :
        LET n == Cardinality(ActiveOf(a))
        IN  /\ Has(active_runs, a) <=> n >= 1
            /\ Has(active_runs, a) => active_runs[a] = n
            /\ Has(cancel_events, a) <=> n >= 1
            /\ \A t \in ActiveOf(a) : runs[t].event = cancel_events[a]
            /\ Has(running_processes, a) => n >= 1

\* Two runs shared one registration; one has finished by an error, the
\* other is still counted.
C6_Witness ==
    \E t, u \in Workers :
        /\ t # u
        /\ Done(t) /\ outcome[t].kind = "raise"
        /\ Registered(u)
        /\ runs[u].action = runs[t].action
        /\ runs[u].event = runs[t].event
        /\ active_runs[runs[u].action] = 1

\* The pipeline of run t failed uncaught at a step.
PrimaryFailed(t) == Done(t) /\ hist[t].failName # ""

\* The id of the step at which the pipeline of run t failed.
FailedId(t) ==
    IF StepDef(hist[t].failName).id # NoId
    THEN StepDef(hist[t].failName).id
    ELSE DefaultId(hist[t].failCount + 1)

\* The pipeline of run t failed because a process ended non-zero.
FailedByExit(t) ==
    /\ PrimaryFailed(t)
    /\ hist[t].lastExit[1] = hist[t].failName
    /\ hist[t].lastExit[2] # 0

\* The key of the record the recovery contract adds to a returned map, and
\* the key it stores the result of the on_error step named n under.
MetaKey == "_meta"
RecoveryKey(n) == "_recovery." \o StepDef(n).id

\* The on_error steps of run t's action, and whether each of them is a
\* program that can only exit with 0.
OnErrorSteps(t) == {ActionOf(t).on_error[i] : i \in 1..Len(ActionOf(t).on_error)}
OnErrorSucceeds(t) == \A n \in OnErrorSteps(t) : StepDef(n).codes = {0}

\* C7: when the pipeline fails uncaught and the action declares an on_error
\* pipeline whose steps all succeed, run_action returns a result map that
\* holds _meta, the results recorded before the failure (and the failed
\* process's own result), and every recovery step's result under
\* "_recovery.<id>".
C7_RecoveredResult ==
    \A t \in Workers :
        (PrimaryFailed(t) /\ ActionOf(t).hasOnError /\ OnErrorSucceeds(t))
            => /\ Returned(t)
               /\ Has(outcome[t].results, MetaKey)
               /\ \A k \in DOMAIN hist[t].atFail :
                     /\ Has(outcome[t].results, k)
                     /\ outcome[t].results[k] = hist[t].atFail[k]
               /\ \A n \in OnErrorSteps(t) : Has(outcome[t].results, RecoveryKey(n))

\* C8: when the pipeline fails and a step of the on_error pipeline is a
\* program that fails as well, run_action raises ActionRecoveryError, and
\* its message names the id of the failed step of the pipeline.
C8_CombinedError ==
    \A t \in Workers :
        (PrimaryFailed(t) /\ ActionOf(t).hasOnError /\ ~OnErrorSucceeds(t))
            => /\ RaisedCls(t, "ActionRecoveryError")
               /\ \E i \in 1..Len(outcome[t].err.msg) :
                     outcome[t].err.msg[i] = FailedId(t)

\* C9: when a stop interrupts a running step of the pipeline of an action
\* that declares on_error (its steps succeed), the call does not raise the
\* cancellation error: it returns a result map that holds _meta and the
\* result of every on_error step.
C9_CancelRecovered ==
    \A t \in Workers :
        (/\ Done(t) /\ hist[t].hit /\ ~hist[t].rival
         /\ ActionOf(t).hasOnError /\ OnErrorSucceeds(t))
            => /\ ~RaisedCls(t, "ActionCancelledError")
               /\ Returned(t)
               /\ Has(outcome[t].results, MetaKey)
               /\ \A n \in OnErrorSteps(t) : Has(outcome[t].results, RecoveryKey(n))

\* C10: for an action without on_error, an uncaught failure of the
\* pipeline ends run_action by raising the error of the failed step itself
\* (for a non-zero exit the EngineError naming step and exit code); no
\* result map is returned.
C10_OriginalErrorPropagates ==
    \A t \in Workers :
        (PrimaryFailed(t) /\ ~ActionOf(t).hasOnError)
            => /\ outcome[t].kind = "raise"
               /\ outcome[t].results = EmptyDict
               /\ outcome[t].err.cls \in
                     {"EngineError", "ActionCancelledError", "TimeoutExpired", "OSError"}
               /\ outcome[t].err.at = FailedId(t)
               /\ FailedByExit(t) =>
                     outcome[t].err = ExitError(FailedId(t), hist[t].lastExit[2])

\* Step slow_run exited with 3 and the call raised the EngineError for it.
C10_Witness ==
    /\ config = "slow"
    /\ FailedByExit("w1")
    /\ hist["w1"].lastExit = <<"slow_run", 3>>
    /\ outcome["w1"].kind = "raise"
    /\ outcome["w1"].err = ExitError("slow_run", 3)

\* Run t asked for an action run_action accepts: a declared action whose
\* pipeline is a list or that carries the run shorthand.
Accepted(t) ==
    /\ runs[t].action \in ActionIds
    /\ \/ ActionOf(t).pipeKind = "list"
       \/ (ActionOf(t).pipeKind = "absent" /\ ActionOf(t).hasRun)

\* The step named n and the steps nested in it can be rendered, launched
\* and dispatched.
RECURSIVE Sound(_)
Sound(n) ==
    LET d == StepDef(n)
    IN  /\ d.when # "error"
        /\ d.kind \in {"run", "pipeline", "foreach"}
        /\ d.kind = "run" => d.render = "ok" /\ d.launch = "ok"
        /\ d.kind = "pipeline" => d.isList
        /\ d.kind = "foreach" => d.items >= 0
        /\ \A i \in 1..Len(d.body) : Sound(d.body[i])

\* Run t met nothing that fails a step: no stop, no timeout, no non-zero
\* exit, and a document whose steps are sound.
Clean(t) ==
    /\ Done(t)
    /\ Accepted(t)
    /\ ~hist[t].stopped /\ ~hist[t].lateRun
    /\ hist[t].timedOut = ""
    /\ \A i \in 1..Len(Pipeline(ActionOf(t))) : Sound(Pipeline(ActionOf(t))[i])
    /\ \A i \in 1..Len(hist[t].trail) :
          hist[t].trail[i].ev = "exit" => hist[t].trail[i].code = 0

\* C11: a run whose pipeline ends without an uncaught error (as every run
\* does in which no step meets a failure) returns a result map that holds
\* _meta, and the map holds the result of no on_error step, whether or not
\* the action declares on_error.
C11_SuccessResult ==
    \A t \in Workers :
        (Done(t) /\ Accepted(t) /\ (hist[t].failName = "" \/ Clean(t)))
            => /\ Returned(t)
               /\ Has(outcome[t].results, MetaKey)
               /\ \A n \in OnErrorSteps(t) : ~Has(outcome[t].results, RecoveryKey(n))

\* The document's structure: the step whose body holds step n ("" for a
\* step of the action's pipeline), the list that holds n, the steps after
\* n in a list, the steps nested in n.
Owner(n) ==
    IF \E m \in StepNames : \E i \in 1..Len(StepDef(m).body) : StepDef(m).body[i] = n
    THEN CHOOSE m \in StepNames : \E i \in 1..Len(StepDef(m).body) : StepDef(m).body[i] = n
    ELSE ""

ListOf(t, n) == IF Owner(n) = "" THEN Pipeline(ActionOf(t)) ELSE StepDef(Owner(n)).body

After(l, n) == {l[j] : j \in {k \in 1..Len(l) : \E i \in 1..(k - 1) : l[i] = n}}

RECURSIVE Inside(_)
Inside(n) == {n} \cup UNION {Inside(StepDef(n).body[i]) : i \in 1..Len(StepDef(n).body)}

\* The steps that an uncaught failure of step n keeps from executing: the
\* later steps of its list, for the body of a foreach also the steps of the
\* later iterations, and, unless the owner continues on error, the steps
\* that a failure of the owner keeps from executing.
RECURSIVE Followers(_, _)
Followers(t, n) ==
    LET l == ListOf(t, n)
        o == Owner(n)
    IN  After(l, n)
          \cup (IF o # "" /\ StepDef(o).kind = "foreach"
                THEN {l[i] : i \in 1..Len(l)} ELSE {})
          \cup (IF o = "" \/ StepDef(o).coe THEN {} ELSE Followers(t, o))

Forbidden(t, n) == UNION {Inside(m) : m \in Followers(t, n)}

\* Step n is enclosed by a step that continues on error.
RECURSIVE Sheltered(_)
Sheltered(n) == Owner(n) # "" /\ (StepDef(Owner(n)).coe \/ Sheltered(Owner(n)))

\* Event i of the trail of run t: a run step without continue_on_error
\* ended with a non-zero exit code.
ExitFailure(t, i) ==
    /\ hist[t].trail[i].ev = "exit"
    /\ hist[t].trail[i].code # 0
    /\ ~StepDef(hist[t].trail[i].name).coe

\* C12: when a run step without continue_on_error exits non-zero, its
\* StepResult is recorded under its id, the error naming the step id and
\* the exit code is raised (it leaves the run unless an enclosing step
\* continues on error), and the next step to execute is none of the steps
\* that follow it: later siblings, later foreach iterations, later steps of
\* enclosing pipelines up to a step that continues on error.
C12_NonZeroExitAborts ==
    \A t \in Workers :
        \A i \in 1..Len(hist[t].trail) :
            ExitFailure(t, i)
                => LET e == hist[t].trail[i]
                   IN  /\ StepDef(e.name).id # NoId => e.sid = StepDef(e.name).id
                       /\ i = Len(hist[t].trail) =>
                             /\ Has(runs[t].step_results, e.sid)
                             /\ runs[t].step_results[e.sid].exit_code = e.code
                       /\ ~Sheltered(e.name) =>
                             /\ hist[t].failName = e.name
                             /\ ExitError(e.sid, e.code) = runs[t].exc
                       /\ i < Len(hist[t].trail) =>
                             /\ hist[t].trail[i + 1].ev = "start"
                             /\ hist[t].trail[i + 1].name \notin Forbidden(t, e.name)

\* The first iteration of the foreach ended with exit code 4: no second
\* iteration, no step post, and the run raised the error for step echo.
C12_Witness ==
    /\ config = "each"
    /\ Done("w1")
    /\ Len(hist["w1"].trail) = 2
    /\ hist["w1"].trail[2].ev = "exit"
    /\ hist["w1"].trail[2].name = "echo"
    /\ hist["w1"].trail[2].code = 4
    /\ outcome["w1"].err = ExitError("echo", 4)

\* The class of the exception that the next step of run t raises inside
\* the try block of its current step, or brings to the except clause of
\* the step that catches it ("none": no such exception): an expression
\* error while rendering the command, a launch failure, a timeout, a
\* non-zero exit of a step without continue_on_error.
AboutToRaise(t) ==
    LET r == runs[t]
    IN  IF r.pc = "top" /\ ~IsSet(r.cancel_event)
           /\ CurStep(r.stack).when \notin FalsyValues \cup {"error"}
           /\ CurStep(r.stack).kind = "run" /\ CurStep(r.stack).render = "error"
        THEN "EngineError"
        ELSE IF r.pc = "popen" /\ CurStep(r.stack).launch = "oserror"
        THEN "OSError"
        ELSE IF r.pc = "except" /\ r.exc.cls \in {"TimeoutExpired", "EngineError"}
        THEN r.exc.cls
        ELSE "none"

\* The innermost call level of the stack whose current step continues on
\* error (0: none does).
Catcher(st) ==
    LET ks == {k \in 1..Len(st) : StepDef(st[k].steps[st[k].i]).coe}
    IN  IF ks = {} THEN 0 ELSE CHOOSE k \in ks : \A j \in ks : j <= k

\* The step id of the current step of level k of run t.
SidAt(t, k) ==
    IF k = Len(runs[t].stack) /\ runs[t].pc = "top"
    THEN StepId(CurStep(runs[t].stack), runs[t].step_results)
    ELSE runs[t].stack[k].sid

\* The step of run t from a state in which an exception is about to be
\* raised under a step that continues on error: one warning for that step,
\* no exception in flight, the run stands at the step's next sibling.
CaughtStep(t) ==
    LET k == Catcher(runs[t].stack)
        st == Settle(NextStep(SubSeq(runs[t].stack, 1, k)))
    IN  /\ log'[t] = Append(log[t], <<"warn", SidAt(t, k), AboutToRaise(t)>>)
        /\ runs'[t].exc = NoErr
        /\ runs'[t].stack = st
        /\ runs'[t].pc = IF st = <<>> THEN "finish" ELSE "top"

\* A run step of run t that continues on error has ended with a non-zero
\* exit code and is about to record its result.
NonZeroContinues(t) ==
    /\ runs[t].pc = "cleanup" /\ runs[t].exc = NoErr
    /\ runs[t].exit_code # 0
    /\ CurStep(runs[t].stack).coe

\* The step of run t from such a state records the StepResult and moves to
\* the next sibling.
RecordedStep(t) ==
    LET sid == Top(runs[t].stack).sid
        st == Settle(NextStep(runs[t].stack))
    IN  /\ Has(runs'[t].step_results, sid)
        /\ runs'[t].step_results[sid].exit_code = runs[t].exit_code
        /\ runs'[t].exc = NoErr
        /\ runs'[t].stack = st
        /\ runs'[t].pc = IF st = <<>> THEN "finish" ELSE "top"

\* C13 (as claimed): a failure of a step with continue_on_error (non-zero
\* exit, launch failure, timeout, expression error in its command or its
\* nested steps) does not propagate, logs a warning for the step, keeps
\* the StepResult obtained and continues with the next sibling.
C13_Step_ContinueWarns ==
    [][\A t \in Workers :
          /\ (AboutToRaise(t) # "none" /\ Catcher(runs[t].stack) > 0
              /\ runs'[t] # runs[t]) => CaughtStep(t)
          /\ (NonZeroContinues(t) /\ runs'[t] # runs[t]) =>
                /\ RecordedStep(t)
                /\ log'[t] = Append(log[t],
                       <<"warn", Top(runs[t].stack).sid, "EngineError">>)]_vars

\* C13 (amended): a launch failure, a timeout or an expression error of a
\* step with continue_on_error or of its nested steps does not propagate,
\* logs one warning for the step and continues with the next sibling; a
\* non-zero exit of a run step with continue_on_error raises nothing and
\* logs nothing: the StepResult is recorded and the next sibling follows.
C13_Step_ContinueAmended ==
    [][\A t \in Workers :
          /\ (AboutToRaise(t) # "none" /\ Catcher(runs[t].stack) > 0
              /\ runs'[t] # runs[t]) => CaughtStep(t)
          /\ (NonZeroContinues(t) /\ runs'[t] # runs[t]) =>
                /\ RecordedStep(t)
                /\ log'[t] = log[t]]_vars

\* The run went through every failing step of the document: a_exit left
\* its result and no warning, the others a warning each, b ran.
C13_Witness ==
    /\ config = "lenient"
    /\ Returned("w1")
    /\ DOMAIN outcome["w1"].results = {"a_exit", "b"}
    /\ outcome["w1"].results["a_exit"].exit_code = 3
    /\ log["w1"] = << <<"run", "a_exit">>,
                      <<"run", "a_launch">>, <<"warn", "a_launch", "OSError">>,
                      <<"run", "a_time">>, <<"warn", "a_time", "TimeoutExpired">>,
                      <<"warn", "a_expr", "EngineError">>,
                      <<"warn", "a_nest", "EngineError">>,
                      <<"run", "b">> >>

\* C14: a run that dispatched a step of unknown type, or a pipeline step
\* whose value is not a list, fails (it ends by raising, never by returning
\* a result), also when that step sets continue_on_error.
C14_StructuralErrorFails ==
    \A t \in Workers :
        (Done(t) /\ hist[t].structural # "")
            => outcome[t].kind = "raise"

\* The run steps of a list of steps in declared, depth-first order, each
\* with the scope it is to see: the steps that begin, in this order, when
\* nothing fails.  A foreach repeats its body once per element, with the
\* alias bound to the element and loop.index to its 0-based position.
RECURSIVE Flat(_, _)
RECURSIVE FlatStep(_, _)
RECURSIVE FlatLoop(_, _, _)
Flat(steps, scope) ==
    IF steps = <<>> THEN <<>>
    ELSE FlatStep(Head(steps), scope) \o Flat(Tail(steps), scope)

FlatStep(n, scope) ==
    LET d == StepDef(n)
    IN  IF d.when \in FalsyValues \cup {"error"} THEN <<>>
        ELSE IF d.kind = "run"
             THEN IF d.render = "ok" THEN <<[name |-> n, scope |-> scope]>> ELSE <<>>
        ELSE IF d.kind = "pipeline"
             THEN IF d.isList THEN Flat(d.body, scope) ELSE <<>>
        ELSE IF d.kind = "foreach"
             THEN FlatLoop(n, scope, 0)
        ELSE <<>>

FlatLoop(n, scope, i) ==
    LET d == StepDef(n)
        bound == [k \in DOMAIN scope \cup {d.as, "loop"} |->
                     IF k = "loop" THEN [index |-> i]
                     ELSE IF k = d.as THEN d.list[i + 1]
                     ELSE scope[k]]
    IN  IF i >= d.items THEN <<>>
        ELSE Flat(d.body, bound) \o FlatLoop(n, scope, i + 1)

\* a is b with some elements left out.
RECURSIVE IsSubseq(_, _)
IsSubseq(a, b) ==
    IF a = <<>> THEN TRUE
    ELSE IF b = <<>> THEN FALSE
    ELSE IF Head(a) = Head(b) THEN IsSubseq(Tail(a), Tail(b))
    ELSE IsSubseq(a, Tail(b))

\* The run steps of the pipeline of run t in the order they began,
\* with the scope each saw.
RECURSIVE StartsOf(_)
StartsOf(tr) ==
    IF tr = <<>> THEN <<>>
    ELSE IF Head(tr).ev = "start"
         THEN <<[name |-> Head(tr).name, scope |-> Head(tr).scope]>> \o StartsOf(Tail(tr))
         ELSE StartsOf(Tail(tr))

Starts(t) == StartsOf(hist[t].trail)

RECURSIVE Names(_)
Names(q) == IF q = <<>> THEN <<>> ELSE <<Head(q).name>> \o Names(Tail(q))

\* C15: the steps of a run begin one after another in declared depth-first
\* order, none while a process of the run is still there, and every step
\* begins with a result map that holds every StepResult produced before.
C15_OrderedAndVisible ==
    \A t \in Workers :
        Registered(t) \/ Done(t) =>
            /\ IsSubseq(Names(Starts(t)), Names(Flat(Pipeline(ActionOf(t)), EmptyDict)))
            /\ runs[t].pc \in {"top", "popen"} => procs[t].state = "none"
            /\ ~hist[t].blind

\* C16: the result map has one entry per StepResult produced: no write
\* replaces an entry, a step executed once per foreach iteration leaves one
\* entry per iteration, also for defaulted ids.
C16_OneEntryPerResult ==
    \A t \in Workers :
        Cardinality(DOMAIN runs[t].step_results) = Cardinality(hist[t].finished)

\* C17: a step whose when guard evaluates falsy is skipped: exactly one
\* skip event is logged for it, no process is launched, the result map is
\* left as it was and the run goes on with the next sibling step.
C17_Step_FalsyGuardSkips ==
    [][\A t \in Workers :
          (/\ runs[t].pc = "top"
           /\ runs'[t] # runs[t]
           /\ ~IsSet(runs[t].cancel_event)
           /\ CurStep(runs[t].stack).when \in FalsyValues)
          => /\ log'[t] = Append(log[t],
                    <<"skip", StepId(CurStep(runs[t].stack), runs[t].step_results)>>)
             /\ runs'[t].step_results = runs[t].step_results
             /\ procs'[t] = procs[t]
             /\ running_processes' = running_processes
             /\ runs'[t].stack = Settle(NextStep(runs[t].stack))
             /\ runs'[t].pc = IF runs'[t].stack = <<>> THEN "finish" ELSE "top"]_vars

RECURSIVE Skipped(_)
Skipped(lg) ==
    IF lg = <<>> THEN <<>>
    ELSE IF Head(lg)[1] = "skip" THEN <<Head(lg)[2]>> \o Skipped(Tail(lg))
    ELSE Skipped(Tail(lg))

C17_Witness ==
    /\ config = "skips"
    /\ Returned("w1")
    /\ Skipped(log["w1"]) = <<"w", "w0", "we">>
    /\ DOMAIN outcome["w1"].results = {"v", "vs", "b"}

\* C18: loop bindings are scoped to their iteration: every step begins with
\* the scope the declared nesting gives it (inside iteration i the alias is
\* element i and loop.index is i, counted from 0; a step after a foreach
\* has the bindings it had before it; after a nested foreach the bindings
\* of the outer iteration are back), and a run in which nothing fails
\* begins exactly the steps of the declared expansion, in list order.
C18_LoopBindingsScoped ==
    \A t \in Workers :
        Registered(t) \/ Done(t) =>
            /\ IsSubseq(Starts(t), Flat(Pipeline(ActionOf(t)), EmptyDict))
            /\ Clean(t) => Starts(t) = Flat(Pipeline(ActionOf(t)), EmptyDict)

C18_Witness ==
    /\ config = "nested"
    /\ Returned("w1")
    /\ Starts("w1") =
         << [name |-> "leaf", scope |-> [o |-> "x", i |-> "1", loop |-> [index |-> 0]]],
            [name |-> "leaf", scope |-> [o |-> "x", i |-> "2", loop |-> [index |-> 1]]],
            [name |-> "tail", scope |-> [o |-> "x", loop |-> [index |-> 0]]],
            [name |-> "leaf", scope |-> [o |-> "y", i |-> "1", loop |-> [index |-> 0]]],
            [name |-> "leaf", scope |-> [o |-> "y", i |-> "2", loop |-> [index |-> 1]]],
            [name |-> "tail", scope |-> [o |-> "y", loop |-> [index |-> 1]]],
            [name |-> "last", scope |-> EmptyDict] >>

\* Lines 21-26: EngineError and its subclass.
EngineFamily == {"EngineError", "ActionCancelledError"}

\* C19: a run ends by returning a result map or by raising one error of the
\* engine's own family; a launch failure or an exceeded timeout never
\* reaches the caller as OSError or TimeoutExpired.
C19_OwnErrorFamily ==
    \A t \in Workers :
        Done(t) =>
            /\ outcome[t].kind \in {"return", "raise"}
            /\ outcome[t].kind = "raise" => outcome[t].err.cls \in EngineFamily

\* C20: when the deadline of a step with timeout_ms is reached at a poll
\* while its process runs, the child and its descendants are killed, the
\* step fails with a timeout error and records no StepResult; a step
\* without timeout_ms never fails with a timeout error.
C20_TimeoutKillsTree ==
    \A t \in Workers :
        /\ ~hist[t].leak
        /\ (runs[t].pc = "cleanup" /\ runs[t].exc.cls = "TimeoutExpired")
              => /\ CurStep(runs[t].stack).timeout
                 /\ procs[t].state # "running"
        /\ (hist[t].timedOut # ""
                          /\ StepDef(hist[t].timedOut).id # NoId)
              => ~Has(runs[t].step_results, StepDef(hist[t].timedOut).id)

\* The action ids of the document run_action does not accept.
Invalid(a) ==
    \/ a \notin ActionIds
    \/ Actions(config)[a].pipeKind = "notlist"
    \/ (Actions(config)[a].pipeKind = "absent" /\ ~Actions(config)[a].hasRun)

\* C23: run_action on an unknown action id, on an action with neither
\* pipeline nor run, or on one whose pipeline is not a list raises a
\* configuration error in its first step, before any step is evaluated or
\* any process launched, and leaves the registry as it was: the call changes
\* no active-run count, cancel flag or process list, and the registry never
\* holds an entry for such an action.
C23_Step_FailFast ==
    [][\A t \in Workers :
          (runs[t].pc = "idle" /\ runs'[t].pc # "idle" /\ Invalid(runs'[t].action))
          => /\ runs'[t].pc = "done"
             /\ outcome'[t].kind = "raise"
             /\ outcome'[t].err.cls = "EngineError"
             /\ runs'[t].stack = <<>> /\ runs'[t].step_results = EmptyDict
             /\ log'[t] = <<>> /\ hist'[t].trail = <<>>
             /\ procs' = procs
             /\ cancel_events' = cancel_events
             /\ active_runs' = active_runs
             /\ running_processes' = running_processes
             /\ events' = events
             /\ ~Has(active_runs', runs'[t].action)
             /\ ~Has(cancel_events', runs'[t].action)
             /\ ~Has(running_processes', runs'[t].action)]_vars

\* The second caller asked for the action without pipeline and run while
\* the run of the first caller was registered with a running process.
C23_Witness ==
    /\ config = "invalid"
    /\ runs["w1"].action = "good" /\ runs["w1"].pc = "poll"
    /\ Done("w2") /\ runs["w2"].action = "nokeys"
    /\ RaisedCls("w2", "EngineError")
    /\ DOMAIN active_runs = {"good"}
    /\ HandlesOf("w1") # {}

\* C22: for every outcome of run_action the worker schedules exactly one
\* _finish_run call, after all log callbacks of the run: (True, results,
\* None, False) on return, (False, None, message, True) on cancellation and
\* (False, None, message, False) on any other failure.
C22_OneFinishPerRun ==
    \A t \in Workers :
        (Done(t) /\ app[t].thread # "running") =>
            /\ Len(app[t].after_calls) = 1
            /\ app[t].thread = "ended"
            /\ LET c == app[t].after_calls[1]
                   o == outcome[t]
               IN  /\ c.fn = "_finish_run"
                   /\ c.logged = Len(log[t])
                   /\ o.kind = "return" =>
                         c = FinishCall(TRUE, <<o.results>>, <<>>, FALSE, c.logged)
                   /\ (o.kind = "raise" /\ o.err.cls = "ActionCancelledError") =>
                         c = FinishCall(FALSE, <<>>, o.err.msg, TRUE, c.logged)
                   /\ (o.kind = "raise" /\ o.err.cls # "ActionCancelledError") =>
                         c = FinishCall(FALSE, <<>>, o.err.msg, FALSE, c.logged)

\* ------------------------------------------------- the capture of output
\* The characters of an output stream: two ordinary characters, newline
\* ("LF") and carriage return ("CR").  A stream, a buffer and a line are
\* sequences of characters.
Chars == {"a", "b", "LF", "CR"}

\* The longest stream _stream_output is given.
MaxStream == 4

Strings(n) == UNION {[1..k -> Chars] : k \in 0..n}

\* Line 393 with the carriage return taken for an ordinary character.
FeedNewlineOnly(buffer, chunk) ==
    IF chunk = "LF"
    THEN [buffer |-> <<>>, flushed |-> IF buffer # <<>> THEN <<buffer>> ELSE <<>>]
    ELSE [buffer |-> Append(buffer, chunk), flushed |-> <<>>]

\* Lines 393-399: one character read by _stream_output: the buffer after it
\* and the lines it flushes (a boundary flushes a buffer that is not empty).
Feed(buffer, chunk) ==
    IF chunk \in {"LF", "CR"}
    THEN [buffer |-> <<>>, flushed |-> IF buffer # <<>> THEN <<buffer>> ELSE <<>>]
    ELSE [buffer |-> Append(buffer, chunk), flushed |-> <<>>]

\* Lines 396 and 402: log(f"[{name}] {buffer}").
LogLine(name, line) == <<name, line>>

LogLines(name, lines) == [i \in 1..Len(lines) |-> LogLine(name, lines[i])]

\* Line 390, stream.read(1): whether the call returns (ready), the
\* character it returns ("": the end of the stream) and what the stream
\* holds afterwards.  The call waits while the stream is empty and open.
\* The stream of a pipe is opened by Popen with text=True (line 448), that
\* is with newline=None: its decoder gives a newline for a carriage return
\* and for a carriage return followed by a newline, and holds a carriage
\* return that is the last character received until the next character or
\* the end of the stream arrives.  A stream with newline "\n" (io.StringIO)
\* gives the characters as they are.
Read1(stream) ==
    IF stream.data = <<>>
    THEN [ready |-> stream.closed, chunk |-> "", rest |-> <<>>]
    ELSE IF stream.newline = "None" /\ Head(stream.data) = "CR"
    THEN IF Tail(stream.data) = <<>>
         THEN [ready |-> stream.closed, chunk |-> "LF", rest |-> <<>>]
         ELSE [ready |-> TRUE, chunk |-> "LF",
               rest |-> IF stream.data[2] = "LF" THEN Tail(Tail(stream.data))
                        ELSE Tail(stream.data)]
    ELSE [ready |-> TRUE, chunk |-> Head(stream.data), rest |-> Tail(stream.data)]

\* Lines 389-402: a _stream_output thread reads one character, or meets the
\* end of the stream, flushes what is left in its buffer and ends.
ReaderStep(n) ==
    /\ readers[n].pc = "read"
    /\ Read1(pipes[n]).ready
    /\ LET c == Read1(pipes[n])
           f == IF c.chunk # ""
                THEN Feed(readers[n].buffer, c.chunk)
                ELSE [buffer |-> <<>>,
                      flushed |-> IF readers[n].buffer # <<>>
                                  THEN <<readers[n].buffer>> ELSE <<>>]
       IN  /\ readers' = [readers EXCEPT ![n] =
                  [pc |-> IF c.chunk # "" THEN "read" ELSE "done",
                   buffer |-> f.buffer]]
           /\ collectors' = [collectors EXCEPT ![n] = @ \o f.flushed]
           /\ out_log' = out_log \o LogLines(n, f.flushed)
           /\ pipes' = [pipes EXCEPT ![n].data = c.rest]
    /\ UNCHANGED <<child, cmd>>
    /\ UNCHANGED <<engine, pure>>

\* _stream_output called by itself on a stream that holds its whole text
\* (as the test suite calls it): no process, no other reader.
InitStream ==
    /\ config = "slow"
    /\ os_name = "posix"
    /\ EngineInit
    /\ \E name \in Streams : \E text \in Strings(MaxStream) :
         /\ child = [state |-> "none", todo |-> [n \in Streams |-> <<>>],
                     wrote |-> [n \in Streams |-> IF n = name THEN text ELSE <<>>]]
         /\ pipes = [n \in Streams |->
                       [data |-> IF n = name THEN text ELSE <<>>, closed |-> TRUE,
                        newline |-> "LF"]]
         /\ readers = [n \in Streams |->
                         [pc |-> IF n = name THEN "read" ELSE "none", buffer |-> <<>>]]
    /\ collectors = [n \in Streams |-> <<>>]
    /\ out_log = <<>>
    /\ cmd = [pc |-> "none"]
    /\ PureIdle

NextStream == \E n \in Streams : ReaderStep(n)

SpecStream == InitStream /\ [][NextStream]_vars

\* The text of a stream cut after every boundary character: one piece per
\* boundary, and the unterminated rest when it is not empty.
RECURSIVE SplitFrom(_, _)
SplitFrom(text, piece) ==
    IF text = <<>> THEN IF piece # <<>> THEN <<piece>> ELSE <<>>
    ELSE IF Head(text) \in {"LF", "CR"}
         THEN <<piece>> \o SplitFrom(Tail(text), <<>>)
         ELSE SplitFrom(Tail(text), Append(piece, Head(text)))

Pieces(text) == SplitFrom(text, <<>>)

NotEmpty(piece) == piece # <<>>

\* What reader n has consumed of its stream.
Consumed(n) ==
    SubSeq(child.wrote[n], 1, Len(child.wrote[n]) - Len(pipes[n].data))

\* C24 as claimed: every boundary character flushes the text since the
\* previous boundary as one captured line, so at the end of the stream the
\* captured lines are the pieces of the text, one per boundary and one for
\* an unterminated rest, each logged once, in stream order.
C24_EveryBoundaryFlushes ==
    \A n \in Streams :
        readers[n].pc = "done" =>
            /\ collectors[n] = Pieces(child.wrote[n])
            /\ out_log = LogLines(n, collectors[n])

\* C24 amended: newline and carriage return are both boundaries; a boundary
\* flushes the buffered text as one captured line and one log call only
\* when the buffer is not empty (consecutive boundaries, as in CR LF, yield
\* no empty line); the rest at the end of the stream is flushed as a last
\* line; lines and log calls correspond one to one in stream order.
C24_StreamLinesAmended ==
    \A n \in Streams :
        readers[n].pc # "none" =>
            /\ out_log = LogLines(n, collectors[n])
            /\ readers[n].pc = "read" =>
                  collectors[n] \o (IF readers[n].buffer # <<>>
                                    THEN <<readers[n].buffer>> ELSE <<>>)
                      = SelectSeq(Pieces(Consumed(n)), NotEmpty)
            /\ readers[n].pc = "done" =>
                  collectors[n] = SelectSeq(Pieces(child.wrote[n]), NotEmpty)

C24_Witness ==
    /\ readers["stderr"].pc = "done"
    /\ child.wrote["stderr"] = <<"a", "CR", "LF", "b">>
    /\ collectors["stderr"] = << <<"a">>, <<"b">> >>
    /\ out_log = << <<"stderr", <<"a">> >>, <<"stderr", <<"b">> >> >>

\* ------------------------------------ a run step with its reader threads
\* The longest text the process writes to one stream.
MaxOut == 2

\* Lines 434-438: the streams of the step that are captured (a pipe) and
\* not inherited.
Captures == {{"stdout", "stderr"}, {"stdout"}, {}}

\* Lines 430-431 and 513-516: the streams whose mode is file:<path>, for
\* each choice of the captured ones.
FileModes(captured) ==
    IF captured = {"stdout", "stderr"} THEN {{}}
    ELSE IF captured = {"stdout"} THEN {{}, {"stderr"}}
    ELSE {{}, {"stdout", "stderr"}}

\* The path of the file mode of stream n: the text after "file:" in the
\* step, and what render_template makes of it.
FilePath(n) == [raw |-> n \o "-${form.name}.txt", rendered |-> n \o "-x.txt"]

\* Lines 444-459: the process has been started with a pipe per captured
\* stream; it is to write a text to each of its streams.
InitCapture ==
    /\ config = "slow"
    /\ os_name = "posix"
    /\ EngineInit
    /\ \E captured \in Captures : \E filed \in FileModes(captured) :
       \E out \in Strings(MaxOut) : \E err \in Strings(MaxOut) :
         /\ child = [state |-> "running",
                     todo |-> [n \in Streams |-> IF n = "stdout" THEN out ELSE err],
                     wrote |-> [n \in Streams |-> <<>>]]
         /\ pipes = [n \in Streams |-> [data |-> <<>>, closed |-> n \notin captured,
                                         newline |-> "None"]]
         /\ cmd = [pc |-> "start", captured |-> captured, filed |-> filed,
                   exit_code |-> -1, result |-> <<>>, files |-> <<>>]
    /\ readers = [n \in Streams |-> [pc |-> "none", buffer |-> <<>>]]
    /\ collectors = [n \in Streams |-> <<>>]
    /\ out_log = <<>>
    /\ PureIdle

\* The process writes the next character of a stream: into the pipe when
\* the stream is captured, to the inherited stream otherwise.
ChildWrite(n) ==
    /\ child.state = "running"
    /\ child.todo[n] # <<>>
    /\ child' = [child EXCEPT !.todo[n] = Tail(@),
                              !.wrote[n] = Append(@, Head(child.todo[n]))]
    /\ pipes' = IF pipes[n].closed THEN pipes
                ELSE [pipes EXCEPT ![n].data = Append(@, Head(child.todo[n]))]
    /\ UNCHANGED <<readers, collectors, out_log, cmd>>
    /\ UNCHANGED <<engine, pure>>

\* The process has written its text and exits; its ends of the pipes close.
ChildExit ==
    /\ child.state = "running"
    /\ \A n \in Streams : child.todo[n] = <<>>
    /\ child' = [child EXCEPT !.state = "exited"]
    /\ pipes' = [n \in Streams |-> [pipes[n] EXCEPT !.closed = TRUE]]
    /\ UNCHANGED <<readers, collectors, out_log, cmd>>
    /\ UNCHANGED <<engine, pure>>

\* Lines 461-468: the _stream_output thread of a captured stream is
\* started, first that of stdout (lines 461-464), then that of stderr
\* (lines 465-468).
StartReader(n) ==
    /\ cmd.pc = IF n = "stdout" THEN "start" ELSE "start_stderr"
    /\ readers' = IF n \in cmd.captured THEN [readers EXCEPT ![n].pc = "read"]
                  ELSE readers
    /\ cmd' = [cmd EXCEPT !.pc = IF n = "stdout" THEN "start_stderr" ELSE "poll"]
    /\ UNCHANGED <<child, pipes, collectors, out_log>>
    /\ UNCHANGED <<engine, pure>>

\* Lines 473-500 on normal completion: proc.wait returns the exit code once
\* the process has exited.
WaitExit ==
    /\ cmd.pc = "poll"
    /\ child.state = "exited"
    /\ cmd' = [cmd EXCEPT !.pc = "join", !.exit_code = 0]
    /\ UNCHANGED <<child, pipes, readers, collectors, out_log>>
    /\ UNCHANGED <<engine, pure>>

\* Lines 502-503 left out: nothing is waited for.
JoinedNone(rs, captured) == TRUE

\* Lines 502-503: t.join() for every reader thread returns when the thread
\* has ended.
Joined(rs, captured) == \A n \in captured : rs[n].pc = "done"

JoinReaders ==
    /\ cmd.pc = "join"
    /\ Joined(readers, cmd.captured)
    /\ cmd' = [cmd EXCEPT !.pc = "result"]
    /\ UNCHANGED <<child, pipes, readers, collectors, out_log>>
    /\ UNCHANGED <<engine, pure>>

\* Lines 510-518: StepResult(exit_code, "\n".join(stdout_lines),
\* "\n".join(stderr_lines), duration_ms), here with the lists of lines;
\* before it, the text of a stream in file mode is written to the path
\* that follows "file:" (lines 513-516).
MakeResult ==
    /\ cmd.pc = "result"
    /\ cmd' = [cmd EXCEPT !.pc = "done",
                          !.files = [p \in {FilePath(n).raw : n \in cmd.filed} |->
                                        collectors[CHOOSE n \in cmd.filed :
                                                       FilePath(n).raw = p]],
                          !.result = <<[exit_code |-> cmd.exit_code,
                                        stdout |-> collectors["stdout"],
                                        stderr |-> collectors["stderr"]]>>]
    /\ UNCHANGED <<child, pipes, readers, collectors, out_log>>
    /\ UNCHANGED <<engine, pure>>

NextCapture ==
    \/ \E n \in Streams : ChildWrite(n)
    \/ ChildExit
    \/ \E n \in Streams : StartReader(n)
    \/ \E n \in Streams : ReaderStep(n)
    \/ WaitExit
    \/ JoinReaders
    \/ MakeResult

SpecCapture == InitCapture /\ [][NextCapture]_vars

\* The lines _stream_output makes of a text: its pieces that are not empty.
Lines(text) == SelectSeq(Pieces(text), NotEmpty)

\* The lines of stream n among the log calls, in order.
RECURSIVE LoggedOf(_, _)
LoggedOf(lg, n) ==
    IF lg = <<>> THEN <<>>
    ELSE IF Head(lg)[1] = n THEN <<Head(lg)[2]>> \o LoggedOf(Tail(lg), n)
    ELSE LoggedOf(Tail(lg), n)

\* C21: the StepResult of a run step that completed normally is constructed
\* after the reader threads of its captured streams have ended, and holds
\* for each captured stream the lines of all the process wrote to it before
\* it exited; each reader appends to the list of its own stream only.
C21_ResultAfterReaders ==
    /\ cmd.pc \in {"result", "done"} =>
          \A n \in cmd.captured : readers[n].pc = "done" /\ pipes[n].data = <<>>
    /\ cmd.pc = "done" =>
          /\ child.state = "exited"
          /\ \A n \in Streams :
                cmd.result[1][n] = IF n \in cmd.captured
                                   THEN Lines(child.wrote[n]) ELSE <<>>
    /\ cmd.pc # "none" =>
          \A n \in Streams : collectors[n] = LoggedOf(out_log, n)

C21_Witness ==
    /\ cmd.pc = "done"
    /\ cmd.captured = {"stdout", "stderr"}
    /\ child.wrote["stdout"] = <<"a", "LF">>
    /\ child.wrote["stderr"] = <<"b", "b">>
    /\ cmd.result[1].stdout = << <<"a">> >>
    /\ cmd.result[1].stderr = << <<"b", "b">> >>

\* C31: when the mode of a stream of a run step is file:<path>, the file at
\* the rendered path holds, after the step completed, the text the process
\* wrote to that stream.
C31_FileHoldsOutput ==
    cmd.pc = "done" =>
        \A n \in cmd.filed :
            /\ FilePath(n).rendered \in DOMAIN cmd.files
            /\ cmd.files[FilePath(n).rendered] = Lines(child.wrote[n])

\* ------------------------------------------------------- the argv builder
\* The values a template renders to.  t: "bool" | "none" | "str" | "int" |
\* "list"; b, n, s: the boolean, the number, the text; items: the elements
\* of a list (strings and numbers).
PyBool(b) == [t |-> "bool", b |-> b, n |-> 0, s |-> "", items |-> <<>>]
PyNone == [t |-> "none", b |-> FALSE, n |-> 0, s |-> "", items |-> <<>>]
PyStr(x) == [t |-> "str", b |-> FALSE, n |-> 0, s |-> x, items |-> <<>>]
PyInt(i) == [t |-> "int", b |-> FALSE, n |-> i, s |-> "", items |-> <<>>]
PyList(items) == [t |-> "list", b |-> FALSE, n |-> 0, s |-> "", items |-> items]

\* The lists of a list, one after the other.
RECURSIVE Concat(_)
Concat(seqs) == IF seqs = <<>> THEN <<>> ELSE Head(seqs) \o Concat(Tail(seqs))

\* joiner.join(texts).
RECURSIVE Join(_, _)
Join(texts, joiner) ==
    IF texts = <<>> THEN ""
    ELSE IF Len(texts) = 1 THEN texts[1]
    ELSE texts[1] \o joiner \o Join(Tail(texts), joiner)

\* repr() of a list element.
Repr(v) ==
    IF v.t = "str" THEN "'" \o v.s \o "'"
    ELSE IF v.t = "int" THEN ToString(v.n)
    ELSE IF v.t = "bool" THEN (IF v.b THEN "True" ELSE "False")
    ELSE "None"

\* str(value).
StrOf(v) ==
    IF v.t = "bool" THEN (IF v.b THEN "True" ELSE "False")
    ELSE IF v.t = "none" THEN "None"
    ELSE IF v.t = "int" THEN ToString(v.n)
    ELSE IF v.t = "str" THEN v.s
    ELSE "[" \o Join([k \in 1..Len(v.items) |-> Repr(v.items[k])], ", ") \o "]"

\* Lines 53-54: empty(value).
Empty(v) ==
    v.t = "none" \/ (v.t = "str" /\ v.s = "") \/ (v.t = "list" /\ v.items = <<>>)

\* Python's bool(value).
Truthy(v) ==
    IF v.t = "bool" THEN v.b
    ELSE IF v.t = "none" THEN FALSE
    ELSE IF v.t = "int" THEN v.n # 0
    ELSE IF v.t = "str" THEN v.s # ""
    ELSE v.items # <<>>

\* The arguments of a list of values, opt before each.
RECURSIVE Pairs(_, _)
Pairs(opt, texts) ==
    IF texts = <<>> THEN <<>>
    ELSE <<opt, Head(texts)>> \o Pairs(opt, Tail(texts))

\* Lines 215-227 with the value tested for truth instead of identity.
ShorthandTruthy(opt, value) ==
    IF value.t = "list"
    THEN Pairs(opt, [k \in 1..Len(value.items) |-> StrOf(value.items[k])])
    ELSE IF value.t = "bool" /\ value.b THEN <<opt>>
    ELSE IF ~Truthy(value) THEN <<>>
    ELSE <<opt, StrOf(value)>>

\* Lines 215-227: the arguments of a shorthand entry {opt: value}.
Shorthand(opt, value) ==
    IF value.t = "bool" /\ value.b THEN <<opt>>
    ELSE IF (value.t = "bool" /\ ~value.b) \/ value.t = "none"
            \/ (value.t = "str" /\ value.s = "")
    THEN <<>>
    ELSE IF value.t = "list"
    THEN Pairs(opt, [k \in 1..Len(value.items) |-> StrOf(value.items[k])])
    ELSE <<opt, StrOf(value)>>

\* Lines 285-291: _append_option; val is the text of the value, isNone
\* tells that the value is None.
AppendOption(opt, style, val, isNone) ==
    IF isNone THEN <<opt>>
    ELSE IF style = "equals" THEN <<opt \o "=" \o val>>
    ELSE <<opt, val>>

\* template.format(entry) for a template that ends with its one
\* positional field, "p:{}" written "p:" ("": no template, then
\* str(entry)).
Format(template, entry) ==
    IF template = "" THEN StrOf(entry) ELSE template \o StrOf(entry)

\* Lines 267-271: the repeat mode, one _append_option per entry.
RECURSIVE Options(_, _, _, _)
Options(opt, style, template, entries) ==
    IF entries = <<>> THEN <<>>
    ELSE AppendOption(opt, style, Format(template, Head(entries)),
                      template = "" /\ Head(entries).t = "none")
            \o Options(opt, style, template, Tail(entries))

\* Lines 247-254: the arguments of a value that is the text "auto", "true"
\* or "false" ("" for false_opt: none given).
TriState(value, opt, false_opt) ==
    IF value.s = "auto" THEN <<>>
    ELSE IF value.s = "true" THEN <<opt>>
    ELSE IF false_opt # "" THEN <<false_opt>>
    ELSE <<>>

\* Lines 233, 238-244: the mode of an extended entry.
ModeOf(item) ==
    IF item.mode # "auto" THEN item.mode
    ELSE IF item.value.t = "bool" THEN "flag"
    ELSE IF item.value.t = "list" THEN "repeat"
    ELSE "value"

\* The values a repeat or join entry goes through.
ValuesOf(value) == IF value.t = "list" THEN value.items ELSE <<value>>

\* Lines 228-280: the arguments of an extended entry; value is the
\* rendered `from`, when the rendered guard ("none": no guard).
Extended(item) ==
    IF item.when # "none" /\ item.when \in FalsyValues THEN <<>>
    ELSE IF item.value.t = "str" /\ item.value.s \in {"auto", "true", "false"}
    THEN TriState(item.value, item.opt, item.false_opt)
    ELSE IF item.omit_if_empty /\ Empty(item.value) THEN <<>>
    ELSE IF ModeOf(item) = "flag"
    THEN IF item.value.t = "bool" /\ item.value.b THEN <<item.opt>>
         ELSE IF item.value.t = "bool" /\ ~item.value.b /\ item.false_opt # ""
         THEN <<item.false_opt>>
         ELSE <<>>
    ELSE IF ModeOf(item) = "value"
    THEN AppendOption(item.opt, item.style, StrOf(item.value), item.value.t = "none")
    ELSE IF ModeOf(item) = "repeat"
    THEN Options(item.opt, item.style, item.template, ValuesOf(item.value))
    ELSE \* join
         AppendOption(item.opt, item.style,
                      Join([k \in 1..Len(ValuesOf(item.value)) |->
                               Format(item.template, ValuesOf(item.value)[k])],
                           item.joiner),
                      FALSE)

\* Lines 279 and 282: the entries serialize_argv raises EngineError for: an
\* extended entry that reaches the dispatch with an unknown mode, and an
\* item that is neither a string nor a map of a known shape.
Unsupported(item) ==
    \/ item.kind = "bad"
    \/ /\ item.kind = "ext"
       /\ ~(item.when # "none" /\ item.when \in FalsyValues)
       /\ ~(item.value.t = "str" /\ item.value.s \in {"auto", "true", "false"})
       /\ ~(item.omit_if_empty /\ Empty(item.value))
       /\ ModeOf(item) \notin {"flag", "value", "repeat", "join"}

\* src/src/yaml_cli_ui/engine.py lines 381-445, _serialize_extended with
\* _render_option_value and _format_option: the second implementation of the
\* extended entry.  err names the exception it raises ("": none), out the
\* list it returns.  `in` compares with ==, so the numbers 1 and 0 count as
\* True and False (lines 399-402); the flag mode is dispatched before
\* omit_if_empty; a template is formatted with the keyword value, which a
\* template with a positional field ("p:{}") answers with IndexError; the
\* text of None is "None".
SerializeExtended(item) ==
    LET value == item.value
        tri == value.t = "str" /\ value.s \in {"auto", "true", "false"}
        mode == IF item.mode # "auto" THEN item.mode
                ELSE IF value.t = "bool" \/ tri THEN "flag"
                ELSE IF value.t = "list" THEN "repeat"
                ELSE "value"
        isTrue == \/ value.t = "bool" /\ value.b
                  \/ value.t = "int" /\ value.n = 1
                  \/ value.t = "str" /\ value.s = "true"
        isFalse == \/ value.t = "bool" /\ ~value.b
                   \/ value.t = "int" /\ value.n = 0
                   \/ value.t = "str" /\ value.s = "false"
        is_empty == \/ value.t = "none"
                    \/ value.t = "str" /\ value.s = ""
                    \/ value.t = "list" /\ value.items = <<>>
        values == IF value.t = "list" THEN value.items ELSE <<value>>
        texts == [k \in 1..Len(values) |-> StrOf(values[k])]
        Returns(args) == [err |-> "", out |-> args]
        Raises(cls) == [err |-> cls, out |-> <<>>]
        FormatOption(text) == IF item.style = "equals"
                              THEN <<item.opt \o "=" \o text>>
                              ELSE <<item.opt, text>>
    IN  IF item.when # "none" /\ item.when \in FalsyValues THEN Returns(<<>>)
        ELSE IF mode = "flag"
        THEN IF isTrue THEN Returns(<<item.opt>>)
             ELSE IF isFalse /\ item.false_opt # "" THEN Returns(<<item.false_opt>>)
             ELSE Returns(<<>>)
        ELSE IF item.omit_if_empty /\ is_empty THEN Returns(<<>>)
        ELSE IF mode \notin {"value", "repeat", "join"} THEN Raises("ValidationError")
        ELSE IF item.template # "" /\ (mode = "value" \/ values # <<>>)
        THEN Raises("IndexError")
        ELSE IF mode = "value" THEN Returns(FormatOption(StrOf(value)))
        ELSE IF mode = "repeat"
        THEN Returns(Concat([k \in 1..Len(texts) |-> FormatOption(texts[k])]))
        ELSE Returns(FormatOption(Join(texts, item.joiner)))

\* Lines 211-280: what one item of the argv spec adds to the output.
Contribution(item) ==
    IF item.kind = "str" THEN <<StrOf(item.value)>>
    ELSE IF item.kind = "short" THEN Shorthand(item.opt, item.value)
    ELSE IF item.kind = "ext" THEN Extended(item)
    ELSE <<>>

\* Lines 213-291: out.append / out.extend.
Extend(out, args) == out \o args

\* The items of an argv spec.  An item carries every field; the kind tells
\* which of them it declares.
Item(kind, opt, value, mode, style, omit, template, false_opt, when) ==
    [kind |-> kind, opt |-> opt, value |-> value, mode |-> mode, style |-> style,
     omit_if_empty |-> omit, template |-> template, false_opt |-> false_opt,
     when |-> when, joiner |-> ","]

Literal(value) == Item("str", "", value, "auto", "separate", TRUE, "", "", "none")
Short(opt, value) == Item("short", opt, value, "auto", "separate", TRUE, "", "", "none")
BadItem == Item("bad", "", PyNone, "auto", "separate", TRUE, "", "", "none")

\* The longest list a value holds and the longest argv spec of several
\* items.
MaxList == 2
MaxArgs == 2

\* The elements of a list value: a text, a number and null.
Elements == {PyStr("ru"), PyInt(1), PyNone}
Scalars ==
    {PyBool(TRUE), PyBool(FALSE), PyNone, PyStr(""), PyStr("abc"), PyStr("auto"),
     PyStr("true"), PyStr("false"), PyInt(0)}
Values == Scalars \cup {PyList(l) : l \in UNION {[1..k -> Elements] : k \in 0..MaxList}}

Modes == {"auto", "flag", "value", "repeat", "join", "bogus"}

ExtendedItems ==
    {Item("ext", "--opt", v, m, st, om, tp, fo, w) :
        v \in Values, m \in Modes, st \in {"separate", "equals"}, om \in BOOLEAN,
        tp \in {"", "p:"}, fo \in {"", "--no-opt"}, w \in {"none", "true", "zero"}}

ShortItems == {Short("--flag", v) : v \in Values}

\* The items of the specs of several items.
Pool ==
    {Literal(PyStr("literal value")), BadItem,
     Short("--flag", PyBool(TRUE)), Short("--name", PyStr("abc")),
     Short("--off", PyBool(FALSE)), Short("--each", PyList(<<PyStr("ru"), PyInt(1)>>)),
     Item("ext", "--langs", PyList(<<PyStr("ru"), PyStr("en")>>), "join", "separate",
          TRUE, "", "", "none"),
     Item("ext", "--switch", PyStr("false"), "flag", "separate", TRUE, "", "--no-switch",
          "none"),
     Item("ext", "--rep", PyList(<<PyStr("ru"), PyInt(1)>>), "auto", "equals",
          TRUE, "", "", "none"),
     Item("ext", "--none", PyStr("auto"), "value", "separate", TRUE, "", "--no-none",
          "none")}

ArgvSpecs ==
    {<<i>> : i \in ExtendedItems \cup ShortItems \cup Pool}
        \cup UNION {[1..k -> Pool] : k \in {0} \cup 2..MaxArgs}

\* serialize_argv is called with an argv spec, or _serialize_extended of
\* the second implementation with an extended entry.  fn names the function,
\* err the class of the exception that ended the call.
InitArgv ==
    /\ config = "slow"
    /\ os_name = "posix"
    /\ EngineInit
    /\ CaptureIdle
    /\ \/ \E d \in ArgvSpecs :
             ser = [fn |-> "serialize_argv", pc |-> "loop", argv_def |-> d, i |-> 1,
                    out |-> <<>>, err |-> ""]
       \/ \E item \in ExtendedItems :
             ser = [fn |-> "_serialize_extended", pc |-> "call", argv_def |-> <<item>>,
                    i |-> 1, out |-> <<>>, err |-> ""]
    /\ tpl = [pc |-> "none"]
    /\ store = [pc |-> "none"]

\* Lines 210-282: one pass of the loop over the items.
SerializeItem ==
    /\ ser.pc = "loop"
    /\ ser.i <= Len(ser.argv_def)
    /\ ser' = IF Unsupported(ser.argv_def[ser.i])
              THEN [ser EXCEPT !.pc = "raised", !.err = "EngineError"]
              ELSE [ser EXCEPT !.i = @ + 1,
                               !.out = Extend(@, Contribution(ser.argv_def[ser.i]))]
    /\ UNCHANGED <<engine, capture, tpl, store>>

\* Line 283: return out.
SerializeReturn ==
    /\ ser.pc = "loop"
    /\ ser.i > Len(ser.argv_def)
    /\ ser' = [ser EXCEPT !.pc = "done"]
    /\ UNCHANGED <<engine, capture, tpl, store>>

\* src/src/yaml_cli_ui/engine.py lines 381-431: the call of
\* _serialize_extended returns its list or raises.
CallSerializeExtended ==
    /\ ser.pc = "call"
    /\ LET r == SerializeExtended(ser.argv_def[1])
       IN  ser' = IF r.err # "" THEN [ser EXCEPT !.pc = "raised", !.err = r.err]
                  ELSE [ser EXCEPT !.pc = "done", !.i = 2, !.out = r.out]
    /\ UNCHANGED <<engine, capture, tpl, store>>

NextArgv == SerializeItem \/ SerializeReturn \/ CallSerializeExtended

SpecArgv == InitArgv /\ [][NextArgv]_vars

\* A call of serialize_argv on the one item `kind` has returned.
ReturnedOne(kind) ==
    /\ ser.pc = "done"
    /\ ser.fn = "serialize_argv"
    /\ Len(ser.argv_def) = 1
    /\ ser.argv_def[1].kind = kind

\* C27: a shorthand entry {opt: value} contributes [opt] for true, nothing
\* for false, null and the empty string, [opt, str(v1), ..., opt, str(vN)]
\* (2N arguments, in element order) for a list of N elements, and
\* [opt, str(value)] for any other value.
C27_Shorthand ==
    ReturnedOne("short") =>
        LET opt == ser.argv_def[1].opt
            value == ser.argv_def[1].value
        IN  IF value = PyBool(TRUE) THEN ser.out = <<opt>>
            ELSE IF value \in {PyBool(FALSE), PyNone, PyStr("")} THEN ser.out = <<>>
            ELSE IF value.t = "list"
            THEN /\ Len(ser.out) = 2 * Len(value.items)
                 /\ \A k \in 1..Len(value.items) :
                        /\ ser.out[2 * k - 1] = opt
                        /\ ser.out[2 * k] = StrOf(value.items[k])
            ELSE ser.out = <<opt, StrOf(value)>>

\* A shorthand entry with a list of two elements has been serialized, and
\* one whose value is the number 0.
C27_Witness ==
    /\ ReturnedOne("short")
    /\ \/ /\ ser.argv_def[1].value = PyList(<<PyStr("ru"), PyInt(1)>>)
          /\ ser.out = <<"--flag", "ru", "--flag", "1">>
       \/ /\ ser.argv_def[1].value = PyInt(0)
          /\ ser.out = <<"--flag", "0">>

\* The rendered value of the one extended entry is a tri-state text and
\* the entry's guard, if it has one, passes.
TriStateEntry ==
    /\ ser.pc # "none"
    /\ Len(ser.argv_def) = 1
    /\ ser.argv_def[1].kind = "ext"
    /\ ser.argv_def[1].value \in {PyStr("auto"), PyStr("true"), PyStr("false")}
    /\ ser.argv_def[1].when \notin FalsyValues

\* C26: an extended entry whose rendered value is the text "auto", "true"
\* or "false" is a tri-state flag whatever its mode (an unknown one
\* included), style, template and omit_if_empty, in serialize_argv and in
\* _serialize_extended: the call does not raise, "auto" contributes
\* nothing, "true" contributes [opt], "false" contributes [false_opt] when
\* one is given and nothing otherwise.
C26_TriStateFlag ==
    TriStateEntry =>
        /\ ser.pc # "raised"
        /\ ser.pc = "done" =>
            LET item == ser.argv_def[1]
            IN  ser.out = IF item.value.s = "auto" THEN <<>>
                          ELSE IF item.value.s = "true" THEN <<item.opt>>
                          ELSE IF item.false_opt # "" THEN <<item.false_opt>>
                          ELSE <<>>

Contributes(item) == Contribution(item) # <<>>

\* The texts of the value occurrences an entry can contribute.
ValueTexts(item) ==
    {StrOf(item.value),
     Join([k \in 1..Len(ValuesOf(item.value)) |->
              Format(item.template, ValuesOf(item.value)[k])], item.joiner)}
        \cup {StrOf(ValuesOf(item.value)[k]) : k \in 1..Len(ValuesOf(item.value))}
        \cup {Format(item.template, ValuesOf(item.value)[k]) :
                 k \in 1..Len(ValuesOf(item.value))}

\* The arguments are the entry's option name alone, or one option name
\* per value occurrence.
OwnNames(item, args) ==
    \/ args \in {<<>>, <<item.opt>>}
    \/ item.false_opt # "" /\ args = <<item.false_opt>>
    \/ /\ Len(args) % 2 = 0
       /\ \A k \in 1..(Len(args) \div 2) :
            /\ args[2 * k - 1] = item.opt
            /\ args[2 * k] \in ValueTexts(item)
    \/ \A k \in 1..Len(args) :
            args[k] \in {item.opt \o "=" \o x : x \in ValueTexts(item)}

\* C25: the argument vector is the concatenation, in declaration order, of
\* what each entry contributes; the entries that contribute nothing can be
\* left out without changing it; and an option entry contributes its own
\* option name only, once alone or once per value occurrence.
C25_DeclarationOrder ==
    (ser.pc \in {"loop", "done"} /\ ser.fn = "serialize_argv") =>
        /\ ser.out = Concat([k \in 1..(ser.i - 1) |-> Contribution(ser.argv_def[k])])
        /\ ser.pc = "done" =>
              ser.out = Concat([k \in 1..Len(SelectSeq(ser.argv_def, Contributes)) |->
                                   Contribution(SelectSeq(ser.argv_def, Contributes)[k])])
        /\ \A k \in 1..(ser.i - 1) :
              IF ser.argv_def[k].kind = "str"
              THEN Contribution(ser.argv_def[k]) = <<StrOf(ser.argv_def[k].value)>>
              ELSE OwnNames(ser.argv_def[k], Contribution(ser.argv_def[k]))

\* ------------------------------------------- templates and the vars scope
\* A map value (a DotDict); s names the map.  The map "m" is a nested
\* form value.
PyMap(name) == [t |-> "map", b |-> FALSE, n |-> 0, s |-> name, items |-> <<>>]
Nested == [k \in {"k"} |-> PyInt(1)]

\* The outcome of an evaluation that raised EngineError.
EvalError == [t |-> "raised", b |-> FALSE, n |-> 0, s |-> "", items |-> <<>>]

\* An expression is a name followed by attribute accesses: form.x.k.
Expr(root, attrs) == [root |-> root, attrs |-> attrs]
ExprText(e) == Join(<<e.root>> \o e.attrs, ".")

\* A template is a sequence of parts: literal text (no whitespace at its
\* ends), whitespace, and the placeholders TEMPLATE_RE matches (line 18).
Txt(x) == [kind |-> "text", s |-> x, expr |-> Expr("", <<>>)]
Ws == [kind |-> "ws", s |-> " ", expr |-> Expr("", <<>>)]
Ph(e) == [kind |-> "ph", s |-> "${" \o ExprText(e) \o "}", expr |-> e]

\* The text of a template.
Source(parts) == Join([k \in 1..Len(parts) |-> parts[k].s], "")

\* The entries of a map of the context.
MapOf(ctx, name) ==
    IF name = "form" THEN ctx.form
    ELSE IF name = "vars" THEN ctx.vars
    ELSE Nested

\* Lines 33-36 (DotDict.__getattr__) and Python's attribute access on
\* other values: numbers have the attribute `real`, and nothing else of
\* the names used here exists.
GetAttr(ctx, v, a) ==
    IF v.t = "raised" THEN v
    ELSE IF v.t = "map"
    THEN IF a \in DOMAIN MapOf(ctx, v.s) THEN MapOf(ctx, v.s)[a] ELSE EvalError
    ELSE IF a = "real" /\ v.t = "int" THEN v
    ELSE IF a = "real" /\ v.t = "bool" THEN PyInt(IF v.b THEN 1 ELSE 0)
    ELSE EvalError

RECURSIVE Walk(_, _, _)
Walk(ctx, v, attrs) ==
    IF attrs = <<>> THEN v ELSE Walk(ctx, GetAttr(ctx, v, Head(attrs)), Tail(attrs))

\* Lines 87-102: SafeEvaluator.eval; a name the context lacks, or a
\* missing attribute, raises.
Eval(ctx, e) ==
    IF e.root \in DOMAIN ctx.names THEN Walk(ctx, ctx.names[e.root], e.attrs) ELSE EvalError

\* str(result) of line 115; the text of a DotDict holds its address, left
\* out here.
Stringify(v) ==
    IF v.t = "map" THEN "<yaml_cli_ui.engine.DotDict object>" ELSE StrOf(v)

\* A template taken as it is.
StripNone(parts) == parts

\* Line 108: value.strip().
RECURSIVE Strip(_)
Strip(parts) ==
    IF parts = <<>> THEN parts
    ELSE IF Head(parts).kind = "ws" THEN Strip(Tail(parts))
    ELSE IF parts[Len(parts)].kind = "ws" THEN Strip(SubSeq(parts, 1, Len(parts) - 1))
    ELSE parts

\* The result of one placeholder of the template, or EvalError.
PartResult(ctx, part) == Eval(ctx, part.expr)

\* Lines 105-117: render_template.  var.kind = "value": the input is
\* not a string.
Render(ctx, var) ==
    IF var.kind = "value" THEN var.value
    ELSE IF Len(Strip(var.parts)) = 1 /\ Strip(var.parts)[1].kind = "ph"
    THEN IF PartResult(ctx, Strip(var.parts)[1]).t = "none" THEN PyStr("")
         ELSE PartResult(ctx, Strip(var.parts)[1])
    ELSE IF \E k \in 1..Len(var.parts) :
              var.parts[k].kind = "ph" /\ PartResult(ctx, var.parts[k]).t = "raised"
    THEN EvalError
    ELSE PyStr(Join([k \in 1..Len(var.parts) |->
                        IF var.parts[k].kind # "ph" THEN var.parts[k].s
                        ELSE IF PartResult(ctx, var.parts[k]).t = "none" THEN ""
                        ELSE Stringify(PartResult(ctx, var.parts[k]))], ""))

\* A var of the configuration: a template, or a value that is no string.
TemplateVar(name, parts) ==
    [name |-> name, kind |-> "template", parts |-> parts, value |-> PyStr(Source(parts))]
ValueVar(name, v) == [name |-> name, kind |-> "value", parts |-> <<>>, value |-> v]

\* The longest template, in parts.
MaxParts == 3

Exprs ==
    {Expr("form", <<"x">>), Expr("form", <<"missing">>), Expr("form", <<"x", "k">>),
     Expr("form", <<"x", "real">>), Expr("item", <<>>), Expr("vars", <<"a">>)}
Parts == {Txt("a-"), Ws} \cup {Ph(e) : e \in Exprs}
Templates == UNION {[1..k -> Parts] : k \in 1..MaxParts}

\* The form has the one field x.
Forms ==
    {[k \in {"x"} |-> v] :
        v \in {PyStr("X"), PyInt(3), PyBool(TRUE), PyNone,
               PyList(<<PyInt(1), PyInt(2)>>), PyMap("m")}}

VarSpecs ==
    {<<TemplateVar("a", p)>> : p \in Templates}
        \cup {<<ValueVar("a", v)>> : v \in {PyInt(5), PyNone, PyBool(FALSE), PyList(<<PyInt(1)>>)}}
        \cup {<<TemplateVar("a", <<Ph(Expr("form", <<"x">>))>>), TemplateVar("b", p)>> :
                 p \in {<<Ph(Expr("vars", <<"a">>)), Txt("-s")>>, <<Ph(Expr("vars", <<"a">>))>>}}
        \cup {<<TemplateVar("b", <<Ph(Expr("vars", <<"a">>))>>), TemplateVar("a", <<Txt("zz")>>)>>}

\* The pipelines: MaxSteps plain steps (steps 1, 2, ...), or one foreach
\* step (step 0) whose one nested step is repeated for the items 1, 2, ...
\* (steps 1, 2, ...).
MaxSteps == 2
LoopItems == {<<>>, [k \in 1..MaxSteps |-> PyInt(k)]}

\* The first step of a pipeline: the foreach step itself, or the first
\* plain step.
FirstStep(items) == IF items = <<>> THEN 1 ELSE 0

\* The last step: the last plain step, or the last iteration.
LastStep(items) == IF items = <<>> THEN MaxSteps ELSE Len(items)

\* Lines 323 and 372-377: the names of the scope the step's _run_steps call
\* was given: {} for the steps of the action's pipeline, the foreach step
\* included, and the loop variable for the steps of an iteration.
Scope(t) == IF t.items # <<>> /\ t.step >= 1 THEN {"item"} ELSE {}

\* The context of the evaluator of lines 187-201 while the vars are
\* rendered: ctx["vars"] is the copy made at line 188, and the scope is
\* added at lines 199-200.
Ctx(t) ==
    [form |-> t.form,
     vars |-> [n \in {t.vars_def[k].name : k \in 1..Len(t.vars_def)} |->
                  t.ctx_vars[CHOOSE k \in 1..Len(t.vars_def) : t.vars_def[k].name = n]],
     names |-> [n \in {"form", "vars"} \cup Scope(t) |->
                  IF n = "item" THEN t.items[t.step] ELSE PyMap(n)]]

\* run_action was called; the first step of its pipeline is reached with
\* the scope {} (line 323).
InitTemplate ==
    /\ config = "slow"
    /\ os_name = "posix"
    /\ EngineInit
    /\ CaptureIdle
    /\ ser = [pc |-> "none"]
    /\ store = [pc |-> "none"]
    /\ \E d \in VarSpecs, f \in Forms, l \in LoopItems :
          tpl = [pc |-> "begin", vars_def |-> d, form |-> f, items |-> l,
                 step |-> FirstStep(l),
                 i |-> 1, resolved |-> <<>>, ctx_vars |-> <<>>, seen |-> <<>>]

\* Lines 178-201: the raw values, the context and its evaluator.
BaseContext ==
    /\ tpl.pc = "begin"
    /\ tpl' = [tpl EXCEPT !.pc = "render", !.i = 1,
                          !.resolved = [k \in 1..Len(tpl.vars_def) |-> tpl.vars_def[k].value],
                          !.ctx_vars = [k \in 1..Len(tpl.vars_def) |-> tpl.vars_def[k].value]]
    /\ UNCHANGED <<engine, capture, ser, store>>

\* Line 188: to_dotdict(resolved_vars) is a new dict, so what line 204
\* writes to resolved_vars does not reach ctx["vars"].
VarsCopied(ctx_vars, resolved) == ctx_vars

\* Lines 203-204: one var is rendered; an EngineError leaves _base_context.
RenderVar ==
    /\ tpl.pc = "render"
    /\ tpl.i <= Len(tpl.vars_def)
    /\ tpl' = IF Render(Ctx(tpl), tpl.vars_def[tpl.i]).t = "raised"
              THEN [tpl EXCEPT !.pc = "raised"]
              ELSE LET written == [tpl.resolved EXCEPT
                                     ![tpl.i] = Render(Ctx(tpl), tpl.vars_def[tpl.i])]
                   IN  [tpl EXCEPT !.i = @ + 1, !.resolved = written,
                                   !.ctx_vars = VarsCopied(tpl.ctx_vars, written)]
    /\ UNCHANGED <<engine, capture, ser, store>>

\* Lines 205-206: the step gets the context with the rendered vars.
ReturnContext ==
    /\ tpl.pc = "render"
    /\ tpl.i > Len(tpl.vars_def)
    /\ tpl' = [tpl EXCEPT !.pc = "ready", !.ctx_vars = tpl.resolved,
                          !.seen = Append(@, tpl.resolved)]
    /\ UNCHANGED <<engine, capture, ser, store>>

\* Lines 345-349: the next step of the pipeline, or the nested step of the
\* next iteration of the foreach step (lines 372-377), builds its own
\* context.
StepContext ==
    /\ tpl.pc = "ready"
    /\ tpl.step < LastStep(tpl.items)
    /\ tpl' = [tpl EXCEPT !.pc = "begin", !.step = @ + 1]
    /\ UNCHANGED <<engine, capture, ser, store>>

NextTemplate == BaseContext \/ RenderVar \/ ReturnContext \/ StepContext

SpecTemplate == InitTemplate /\ [][NextTemplate]_vars

\* The one var of the configuration has just been rendered.
RenderedOne ==
    /\ tpl.pc = "render"
    /\ Len(tpl.vars_def) = 1
    /\ tpl.i = 2

Placeholders(parts) == {k \in 1..Len(parts) : parts[k].kind = "ph"}

\* The text in which every placeholder is replaced by its stringified
\* result (null: the empty text) and the rest is kept.
Substituted(ctx, parts) ==
    PyStr(Join([k \in 1..Len(parts) |->
                   IF parts[k].kind # "ph" THEN parts[k].s
                   ELSE IF Eval(ctx, parts[k].expr) = PyNone THEN ""
                   ELSE Stringify(Eval(ctx, parts[k].expr))], ""))

\* C29 as stated: render_template returns a non-string input unchanged,
\* the native value of the expression for a string that is exactly one
\* placeholder, and for a placeholder embedded in other text the string
\* with every placeholder replaced by its stringified result (null: the
\* empty string) and the literal text kept verbatim.
C29_RenderAsStated ==
    RenderedOne =>
        LET var == tpl.vars_def[1]
        IN  IF var.kind = "value" THEN tpl.resolved[1] = var.value
            ELSE IF Len(var.parts) = 1 /\ var.parts[1].kind = "ph"
            THEN tpl.resolved[1] = Eval(Ctx(tpl), var.parts[1].expr)
            ELSE Placeholders(var.parts) # {}
                    => tpl.resolved[1] = Substituted(Ctx(tpl), var.parts)

\* The template is one placeholder and, around it, whitespace only.
OnePlaceholder(parts) ==
    /\ Cardinality(Placeholders(parts)) = 1
    /\ \A k \in 1..Len(parts) : parts[k].kind \in {"ph", "ws"}

\* C29 amended: render_template returns a non-string input unchanged; for
\* a string that is one placeholder with nothing but whitespace around it,
\* the native value of the expression, except that null becomes the empty
\* string; for any other string, the string with every placeholder
\* replaced by its stringified result (null: the empty string) and the
\* rest, whitespace included, kept verbatim.
C29_RenderAmended ==
    RenderedOne =>
        LET var == tpl.vars_def[1]
        IN  IF var.kind = "value" THEN tpl.resolved[1] = var.value
            ELSE IF OnePlaceholder(var.parts)
            THEN LET r == Eval(Ctx(tpl), var.parts[CHOOSE k \in Placeholders(var.parts) : TRUE].expr)
                 IN  tpl.resolved[1] = IF r = PyNone THEN PyStr("") ELSE r
            ELSE tpl.resolved[1] = Substituted(Ctx(tpl), var.parts)

\* A placeholder between two blanks gave the number of the form, and the
\* same placeholder after a text gave a string.
C29_Witness ==
    /\ RenderedOne
    /\ tpl.form["x"] = PyInt(3)
    /\ \/ /\ tpl.vars_def[1].parts = <<Ws, Ph(Expr("form", <<"x">>)), Ws>>
          /\ tpl.resolved[1] = PyInt(3)
       \/ /\ tpl.vars_def[1].parts = <<Txt("a-"), Ph(Expr("form", <<"x">>))>>
          /\ tpl.resolved[1] = PyStr("a-3")

\* Attribute access as the specification states it: null for a key a map
\* lacks, an error on a value that is not a map.
StatedAttr(ctx, v, a) ==
    IF v.t = "raised" THEN v
    ELSE IF v.t = "map"
    THEN IF a \in DOMAIN MapOf(ctx, v.s) THEN MapOf(ctx, v.s)[a] ELSE PyNone
    ELSE EvalError

RECURSIVE StatedWalk(_, _, _)
StatedWalk(ctx, v, attrs) ==
    IF attrs = <<>> THEN v
    ELSE StatedWalk(ctx, StatedAttr(ctx, v, Head(attrs)), Tail(attrs))

\* C30: attribute access on a map for a key the map lacks evaluates to
\* null instead of raising, and attribute access on a value that is not a
\* map raises an expression error.  Stated for a var that is one
\* placeholder over the names of the context: its rendering raises exactly
\* when the stated evaluation does.
C30_MissingAttributeIsNull ==
    (/\ tpl.pc \in {"render", "raised"}
     /\ Len(tpl.vars_def) = 1
     /\ tpl.pc = "render" => tpl.i = 2
     /\ tpl.vars_def[1].kind = "template"
     /\ Len(tpl.vars_def[1].parts) = 1
     /\ tpl.vars_def[1].parts[1].kind = "ph"
     /\ tpl.vars_def[1].parts[1].expr.root \in DOMAIN Ctx(tpl).names)
        => LET e == tpl.vars_def[1].parts[1].expr
               stated == StatedWalk(Ctx(tpl), Ctx(tpl).names[e.root], e.attrs)
           IN  (tpl.pc = "raised") <=> (stated = EvalError)

\* The vars resolved one after the other: var n is rendered in a context
\* whose vars hold the resolved values of the vars declared before it.
RECURSIVE InOrder(_, _)
InOrder(t, n) ==
    IF n = 0 THEN [k \in 1..Len(t.vars_def) |-> t.vars_def[k].value]
    ELSE LET prev == InOrder(t, n - 1)
         IN  [prev EXCEPT ![n] = Render(Ctx([t EXCEPT !.ctx_vars = prev]), t.vars_def[n])]

\* C28: the vars are resolved once per run_action call, in declaration
\* order: a var that references an earlier var sees its resolved value,
\* and every step of the call sees the same resolved vars.
C28_VarsResolvedOnce ==
    tpl.pc = "ready" =>
        /\ tpl.resolved = InOrder([tpl EXCEPT !.ctx_vars =
                                      [k \in 1..Len(tpl.vars_def) |-> tpl.vars_def[k].value]],
                                  Len(tpl.vars_def))
        /\ \A j, k \in 1..Len(tpl.seen) : tpl.seen[j] = tpl.seen[k]

\* ------------------------------------------------ guards, stops, registry
\* C39: an error raised while a step's when guard is evaluated is not
\* covered by the step's continue_on_error: no warning is logged for the
\* step, no result is recorded and no process is launched for it, and the
\* pipeline the step belongs to is left: the run fails with the error, or
\* the step that owns the pipeline handles it.
C39_Step_GuardErrorAborts ==
    [][\A t \in Workers :
          (/\ runs[t].pc = "top"
           /\ runs'[t] # runs[t]
           /\ ~IsSet(runs[t].cancel_event)
           /\ CurStep(runs[t].stack).when = "error")
          => LET sid == StepId(CurStep(runs[t].stack), runs[t].step_results)
             IN  /\ runs'[t].step_results = runs[t].step_results
                 /\ procs'[t] = procs[t]
                 /\ Len(log'[t]) >= Len(log[t])
                 /\ SubSeq(log'[t], 1, Len(log[t])) = log[t]
                 /\ \A k \in (Len(log[t]) + 1)..Len(log'[t]) :
                        /\ log'[t][k][1] = "warn"
                        /\ log'[t][k][2] # sid
                 /\ Len(runs'[t].stack) < Len(runs[t].stack)
                 /\ Len(runs[t].stack) = 1
                      => /\ runs'[t].pc = "finish"
                         /\ runs'[t].exc = ExpressionError(sid)]_vars

\* The guard error of a top-level step ended the run with no event logged;
\* inside a pipeline step that continues on error, the run went on after
\* that step.
C39_Witness ==
    /\ config = "guards"
    /\ \/ /\ runs["w1"].action = "gtop"
          /\ RaisedCls("w1", "EngineError")
          /\ outcome["w1"].err = ExpressionError("ge")
          /\ log["w1"] = <<>>
       \/ /\ runs["w1"].action = "gnest"
          /\ Returned("w1")
          /\ DOMAIN outcome["w1"].results = {"z"}
          /\ log["w1"][1] = <<"warn", "gbox", "EngineError">>

\* C35: when a poll of a running step observes the cancel flag, a graceful
\* termination request (SIGTERM) is sent to the process group first and
\* nothing is killed or forced at that moment; the forceful kill goes to
\* the whole group, and only when the process is still running at the end
\* of the grace period, after the graceful request; the cancellation error
\* is raised only once the process has exited.
C35_CancelOrder ==
    [][\A t \in Workers :
          /\ (runs[t].pc = "poll" /\ runs'[t].pc = "grace")
                => /\ procs'[t].state = procs[t].state
                   /\ procs'[t].code = procs[t].code
                   /\ procs[t].state = "running" => procs'[t].term
                   /\ ~procs'[t].force
                   /\ runs'[t].exc = runs[t].exc
          /\ (runs[t].pc = "grace" /\ runs'[t].pc # "grace")
                => /\ procs[t].state = "exited" => procs'[t] = procs[t]
                   /\ procs[t].state = "running"
                         => /\ procs[t].term
                            /\ procs'[t].code = -SIGKILL
                            /\ procs'[t].tree # "alive"
                   /\ procs'[t].state = "exited"
                   /\ runs'[t].exc.cls = "ActionCancelledError"
          /\ (runs'[t].exc.cls = "ActionCancelledError"
                 /\ runs[t].exc.cls # "ActionCancelledError"
                 /\ runs'[t].pc = "cleanup")
                => procs'[t].state = "exited"]_vars

\* C36: a run of an action without on_error, stopped while the process of
\* one of its run steps ran, ends with the cancellation error even when
\* another run of the same action started after the stop.
C36_StopSurvivesNewRun ==
    \A t \in Workers :
        (Done(t) /\ hist[t].hit /\ hist[t].rival /\ ~ActionOf(t).hasOnError)
            => RaisedCls(t, "ActionCancelledError")

\* The _run_command call of worker t is between the registration of its
\* process (line 455) and the end of its finally (line 507).
InCommand(t) == runs[t].pc \in {"poll", "grace", "deadline", "wait", "cleanup"}

\* C37: every handle in _running_processes[A] is the process of a
\* _run_command call of A that is executing; a call that is polling its
\* process has the handle in the list whatever the other runs of the
\* action do; when the call is about to return or raise the process has
\* exited, and once it has, no handle of the run is left.
C37_RegistryHoldsLiveCalls ==
    /\ \A a \in DOMAIN running_processes :
          \A i \in 1..Len(running_processes[a]) :
             LET pid == running_processes[a][i]
             IN  /\ InCommand(pid[1])
                 /\ runs[pid[1]].action = a
                 /\ procs[pid[1]].n = pid[2]
                 /\ \A k \in 1..Len(running_processes[a]) :
                       running_processes[a][k] = pid => k = i
    /\ \A t \in Workers :
          /\ (InCommand(t) /\ runs[t].pc # "cleanup")
                => InList(Get(running_processes, runs[t].action, <<>>), Pid(t))
          /\ runs[t].pc = "cleanup" => procs[t].state = "exited"
          /\ ~InCommand(t) => HandlesOf(t) = {}

\* One run's _run_command has returned and its run has ended while
\* another run of the action polls its process, the only one listed.
C37_Witness ==
    \E t, u \in Workers :
        /\ t # u
        /\ Returned(t)
        /\ outcome[t].results # EmptyDict
        /\ runs[u].pc = "wait"
        /\ runs[u].action = runs[t].action
        /\ procs[u].state = "running"
        /\ running_processes[runs[u].action] = <<Pid(u)>>

\* Worker t has a run of an action other than a.
RunsOther(t, a) == runs[t].pc # "idle" /\ runs[t].action # a

\* C38: a step of stop_action(A) leaves the cancel flag, the count and the
\* process list of every other action as they were and signals no process
\* of a run of another action; the Event it holds is not that of another
\* action, the handles it holds are of runs of A; and a run that meets the
\* cancellation error has a stop_action of its own action behind it.
C38_StopTouchesOnlyTarget ==
    [][/\ \A s \in Stoppers :
            stops'[s] # stops[s] =>
               LET a == stops'[s].action
               IN  /\ \A b \in ActionIds \ {a} :
                         /\ Get(cancel_events', b, NoEvent) = Get(cancel_events, b, NoEvent)
                         /\ Get(active_runs', b, 0) = Get(active_runs, b, 0)
                         /\ Get(running_processes', b, <<>>) = Get(running_processes, b, <<>>)
                         /\ Has(cancel_events, b)
                               => events'[cancel_events[b]] = events[cancel_events[b]]
                   /\ \A t \in Workers :
                         RunsOther(t, a) =>
                            /\ procs'[t] = procs[t]
                            /\ runs'[t] = runs[t]
                            /\ IsSet(runs[t].cancel_event)' = IsSet(runs[t].cancel_event)
                   /\ \A t \in Workers :
                         RunsOther(t, a) =>
                            /\ stops'[s].event = NoEvent \/ stops'[s].event # runs[t].event
                            /\ \A i \in 1..Len(stops'[s].processes) :
                                  stops'[s].processes[i][1] # t
       /\ \A t \in Workers :
            (runs'[t].exc.cls = "ActionCancelledError"
               /\ runs[t].exc.cls # "ActionCancelledError")
               => \E s \in Stoppers :
                     /\ stops[s].pc \in {"term", "done"}
                     /\ stops[s].action = runs[t].action]_vars

\* stop_action(left) has ended and cancelled the run of left, stopped
\* while its process ran; the run of right returned the result of its step.
C38_Witness ==
    /\ config = "pair"
    /\ stops[1].pc = "done"
    /\ stops[1].action = "left"
    /\ \E t, u \in Workers :
          /\ RaisedCls(t, "ActionCancelledError")
          /\ runs[t].action = "left"
          /\ Returned(u)
          /\ runs[u].action = "right"
          /\ Has(outcome[u].results, "after")
          /\ hist[t].hit

\* No run of action a is between its registration and its finally.
NoRunOf(a) == \A u \in Workers : ~(Registered(u) /\ runs[u].action = a)

\* C40: stop_action(A) entered while no run of A is active holds no Event
\* and no handle and changes nothing of the engine; a run of A that starts
\* while no run of A is active begins with a clear flag that no stop_action
\* entered so far holds; and a run is cancelled only by a stop_action that
\* holds its Event.
C40_StopDoesNotPersist ==
    [][/\ \A s \in Stoppers :
            /\ (stops[s].pc = "idle" /\ stops'[s].pc # "idle"
                    /\ NoRunOf(stops'[s].action))
                  => /\ stops'[s].event = NoEvent
                     /\ stops'[s].processes = <<>>
            /\ (stops[s].pc = "set" /\ stops[s].event = NoEvent
                    /\ stops[s].processes = <<>> /\ stops'[s] # stops[s])
                  => /\ stops'[s].pc = "done"
                     /\ UNCHANGED <<cancel_events, active_runs, running_processes,
                                    events, runs, procs, log, outcome>>
       /\ \A t \in Workers :
            /\ (runs[t].pc = "idle" /\ Registered(t)' /\ NoRunOf(runs'[t].action))
                  => /\ ~IsSet(runs[t].cancel_event)'
                     /\ \A s \in Stoppers :
                           /\ stops[s].event # runs'[t].cancel_event
                           /\ \A i \in 1..Len(stops[s].processes) :
                                 stops[s].processes[i] # Pid(t)'
            /\ (runs'[t].exc.cls = "ActionCancelledError"
                    /\ runs[t].exc.cls # "ActionCancelledError")
                  => \E s \in Stoppers :
                        /\ stops[s].pc \in {"term", "done"}
                        /\ stops[s].event = runs[t].event]_vars

\* stop_action ran to its end before the run started: it held no Event,
\* and the run is polling its process with the flag clear.
C40_Witness ==
    \E t \in Workers :
        /\ \A s \in Stoppers : stops[s].pc = "done" /\ stops[s].event = NoEvent
        /\ stops[1].action = runs[t].action
        /\ runs[t].pc = "wait"
        /\ procs[t].state = "running"
        /\ ~IsSet(runs[t].cancel_event)
        /\ \A u \in Workers \ {t} : Returned(u) /\ runs[u].action = runs[t].action

\* ---------------------------------------------------------------- presets
\* The action id, the preset names (one of them blank) and the form values
\* the callers pass to the PresetService.
PresetActions == {"build"}
PresetNames == {"smoke", "regression", " "}
NoValues == "{}"
PresetValues == {NoValues, "{mode: fast}", "{mode: slow}"}

\* not name.strip()
Blank(name) == name \in {"", " "}

\* last_run of an action: the key is absent, a snapshot of form values, or
\* a reference to a preset by name.
NoLastRun == [mode |-> "absent", preset_name |-> "", values |-> ""]
Snapshot(values) == [mode |-> "snapshot", preset_name |-> "", values |-> values]
PresetRef(name) == [mode |-> "preset_ref", preset_name |-> name, values |-> ""]

\* Lines 55-65: _action_state creates the entry of an action that has none,
\* with an empty preset map, in the state in memory.
ActionState(actions, a) ==
    IF Has(actions, a) THEN actions
    ELSE Put(actions, a, [presets |-> EmptyDict, last_run |-> NoLastRun])

\* The values list_presets, get_preset_values ("None": no such preset) and
\* get_last_run return in a service whose state holds actions.
ListPresets(actions, a) == DOMAIN ActionState(actions, a)[a].presets
GetPresetValues(actions, a, name) == Get(ActionState(actions, a)[a].presets, name, "None")
GetLastRun(actions, a) == ActionState(actions, a)[a].last_run

\* Lines 48-53: _save_state writes the whole state to the presets file.
SaveState(actions) == [exists |-> TRUE, actions |-> actions]

\* What the last call of the service was and how it ended: result is the
\* returned value or the exception class ("read": the call returned what
\* store.read holds), wrote whether _save_state ran.
Call(op, a, name, new_name, values, result, wrote) ==
    [op |-> op, action |-> a, name |-> name, new_name |-> new_name,
     values |-> values, result |-> result, wrote |-> wrote]

\* What the last read of the service returned: the names of list_presets,
\* the values of get_preset_values, the last_run of get_last_run.
NoRead == [names |-> {}, values |-> "None", last_run |-> NoLastRun]

\* A PresetService constructed for a configuration without presets file.
InitPresets ==
    /\ config = "slow"
    /\ os_name = "posix"
    /\ EngineInit
    /\ CaptureIdle
    /\ ser = [pc |-> "none"]
    /\ tpl = [pc |-> "none"]
    /\ store = [pc |-> "ready", state |-> EmptyDict,
                file |-> [exists |-> FALSE, actions |-> EmptyDict],
                call |-> Call("none", "", "", "", "", "", FALSE),
                read |-> NoRead,
                unguarded |-> FALSE]

\* Lines 67-72: list_presets.  _action_state (line 68) creates the entry of
\* an action that has none in the state in memory; nothing is written.
CallListPresets(a) ==
    /\ store.pc = "ready"
    /\ store' = [store EXCEPT
                   !.state = ActionState(store.state, a),
                   !.read = [NoRead EXCEPT !.names = ListPresets(store.state, a)],
                   !.call = Call("list_presets", a, "", "", "", "read", FALSE)]
    /\ UNCHANGED <<engine, capture, ser, tpl>>

\* Lines 74-83: get_preset_values, with the same _action_state (line 75).
CallGetPresetValues(a, name) ==
    /\ store.pc = "ready"
    /\ store' = [store EXCEPT
                   !.state = ActionState(store.state, a),
                   !.read = [NoRead EXCEPT
                               !.values = GetPresetValues(store.state, a, name)],
                   !.call = Call("get_preset_values", a, name, "", "", "read", FALSE)]
    /\ UNCHANGED <<engine, capture, ser, tpl>>

\* Lines 85-90: get_last_run, with the same _action_state (line 86).
CallGetLastRun(a) ==
    /\ store.pc = "ready"
    /\ store' = [store EXCEPT
                   !.state = ActionState(store.state, a),
                   !.read = [NoRead EXCEPT !.last_run = GetLastRun(store.state, a)],
                   !.call = Call("get_last_run", a, "", "", "", "read", FALSE)]
    /\ UNCHANGED <<engine, capture, ser, tpl>>

\* Lines 92-101: save_preset.
SavePreset(a, name, values) ==
    /\ store.pc = "ready"
    /\ store' =
         IF Blank(name)
         THEN [store EXCEPT !.call = Call("save_preset", a, name, "", values,
                                          "PresetError", FALSE)]
         ELSE LET st == ActionState(store.state, a)
                  new == [st EXCEPT ![a].presets = Put(@, name, values)]
              IN  [store EXCEPT !.state = new, !.file = SaveState(new),
                                !.call = Call("save_preset", a, name, "", values,
                                              "None", TRUE)]
    /\ UNCHANGED <<engine, capture, ser, tpl>>

\* Lines 108-111 without the check of the new name.
RenameErrorMissingOnly(presets, old_name, new_name) ==
    IF ~Has(presets, old_name) THEN "Preset was not found" ELSE ""

\* Lines 108-111: the message of the PresetError, "" when none is raised.
RenameError(presets, old_name, new_name) ==
    IF ~Has(presets, old_name) THEN "Preset was not found"
    ELSE IF Has(presets, new_name) /\ new_name # old_name
    THEN "Preset with this name already exists"
    ELSE ""

\* Lines 114-117 left out.
RenameLastRunKept(last_run, old_name, new_name) == last_run

\* Lines 114-117: a reference to the renamed preset follows it.
RenameLastRun(last_run, old_name, new_name) ==
    IF last_run.mode = "preset_ref" /\ last_run.preset_name = old_name
    THEN PresetRef(new_name)
    ELSE last_run

\* Lines 103-118: rename_preset.
RenamePreset(a, old_name, new_name) ==
    /\ store.pc = "ready"
    /\ store' =
         IF Blank(new_name)
         THEN [store EXCEPT !.call = Call("rename_preset", a, old_name, new_name, "",
                                          "PresetError", FALSE)]
         ELSE LET st == ActionState(store.state, a)
              IN  IF RenameError(st[a].presets, old_name, new_name) # ""
                  THEN [store EXCEPT !.state = st,
                                     !.call = Call("rename_preset", a, old_name, new_name,
                                                   "", "PresetError", FALSE)]
                  ELSE LET new == [st EXCEPT
                                     ![a].presets = Put(Pop(@, old_name), new_name,
                                                        st[a].presets[old_name]),
                                     ![a].last_run = RenameLastRun(@, old_name, new_name)]
                       IN  [store EXCEPT !.state = new, !.file = SaveState(new),
                                         !.call = Call("rename_preset", a, old_name,
                                                       new_name, "", "None", TRUE)]
    /\ UNCHANGED <<engine, capture, ser, tpl>>

\* Lines 120-135: delete_preset.
DeletePreset(a, name) ==
    /\ store.pc = "ready"
    /\ LET st == ActionState(store.state, a)
           cleared == st[a].last_run.mode = "preset_ref"
                         /\ st[a].last_run.preset_name = name
           new == [st EXCEPT ![a].presets = Pop(@, name),
                             ![a].last_run = IF cleared THEN Snapshot(NoValues) ELSE @]
       IN  store' =
             IF ~Has(st[a].presets, name)
             THEN [store EXCEPT !.state = st,
                                !.call = Call("delete_preset", a, name, "", "", "False", FALSE)]
             ELSE [store EXCEPT !.state = new, !.file = SaveState(new),
                                !.call = Call("delete_preset", a, name, "", "",
                                              IF cleared THEN "True" ELSE "False", TRUE)]
    /\ UNCHANGED <<engine, capture, ser, tpl>>

\* Lines 137-140: save_last_run_snapshot.
SaveLastRunSnapshot(a, values) ==
    /\ store.pc = "ready"
    /\ LET new == [ActionState(store.state, a) EXCEPT ![a].last_run = Snapshot(values)]
       IN  store' = [store EXCEPT !.state = new, !.file = SaveState(new),
                                  !.call = Call("save_last_run_snapshot", a, "", "",
                                                values, "None", TRUE)]
    /\ UNCHANGED <<engine, capture, ser, tpl>>

\* Lines 142-145: save_last_run_preset_ref; unguarded records a call with a
\* name that is not a preset of the action.
SaveLastRunPresetRef(a, name) ==
    /\ store.pc = "ready"
    /\ LET st == ActionState(store.state, a)
           new == [st EXCEPT ![a].last_run = PresetRef(name)]
       IN  store' = [store EXCEPT !.state = new, !.file = SaveState(new),
                                  !.call = Call("save_last_run_preset_ref", a, name, "",
                                                "", "None", TRUE),
                                  !.unguarded = @ \/ ~Has(st[a].presets, name)]
    /\ UNCHANGED <<engine, capture, ser, tpl>>

NextPresets ==
    \/ \E a \in PresetActions : CallListPresets(a)
    \/ \E a \in PresetActions, n \in PresetNames : CallGetPresetValues(a, n)
    \/ \E a \in PresetActions : CallGetLastRun(a)
    \/ \E a \in PresetActions, n \in PresetNames, v \in PresetValues : SavePreset(a, n, v)
    \/ \E a \in PresetActions, o, n \in PresetNames : RenamePreset(a, o, n)
    \/ \E a \in PresetActions, n \in PresetNames : DeletePreset(a, n)
    \/ \E a \in PresetActions, v \in PresetValues : SaveLastRunSnapshot(a, v)
    \/ \E a \in PresetActions, n \in PresetNames : SaveLastRunPresetRef(a, n)

SpecPresets == InitPresets /\ [][NextPresets]_vars

\* C33: as long as save_last_run_preset_ref was only called with names of
\* existing presets, a last_run in mode preset_ref names a preset that
\* exists; a rename that succeeds turns a reference to the old name into
\* one to the new name and leaves any other last_run as it was;
\* delete_preset returns true exactly when it deleted the referenced
\* preset, last_run then being the empty snapshot, and leaves last_run as
\* it was otherwise.
C33_LastRunFollowsPresets ==
    [][store' # store =>
         LET c == store'.call
             names == ListPresets(store.state, c.action)
             before == GetLastRun(store.state, c.action)
             after == GetLastRun(store'.state, c.action)
         IN  /\ ~store'.unguarded =>
                   \A a \in PresetActions :
                      GetLastRun(store'.state, a).mode = "preset_ref"
                         => GetLastRun(store'.state, a).preset_name
                               \in ListPresets(store'.state, a)
             /\ (c.op = "rename_preset" /\ c.result = "None")
                   => /\ c.new_name \in ListPresets(store'.state, c.action)
                      /\ after = IF before = PresetRef(c.name)
                                 THEN PresetRef(c.new_name) ELSE before
             /\ c.op = "delete_preset"
                   => /\ c.result = "True" <=> (c.name \in names /\ before = PresetRef(c.name))
                      /\ c.result = "True" => after = Snapshot(NoValues)
                      /\ c.result = "False" => after = before
                      /\ c.name \notin ListPresets(store'.state, c.action)]_vars

\* The referenced preset was renamed and the reference names it by its new
\* name, another preset of the action being left.
C33_Witness ==
    /\ store.pc = "ready"
    /\ ~store.unguarded
    /\ store.call.op = "rename_preset"
    /\ store.call.result = "None"
    /\ store.call.name # store.call.new_name
    /\ GetLastRun(store.state, store.call.action) = PresetRef(store.call.new_name)
    /\ store.call.new_name \in ListPresets(store.state, store.call.action)

\* C34: rename_preset to a name another preset of the action has, of a
\* preset that does not exist, or to a blank name raises PresetError; the
\* preset names, the values of every preset and last_run are what they
\* were, and the presets file is not written.
C34_RejectedRenameKeepsAll ==
    [][(/\ store' # store
        /\ store'.call.op = "rename_preset"
        /\ LET c == store'.call
               names == ListPresets(store.state, c.action)
           IN  \/ Blank(c.new_name)
               \/ c.name \notin names
               \/ (c.new_name \in names /\ c.new_name # c.name))
         => /\ store'.call.result = "PresetError"
            /\ ~store'.call.wrote
            /\ store'.file = store.file
            /\ \A a \in PresetActions :
                 /\ ListPresets(store'.state, a) = ListPresets(store.state, a)
                 /\ GetLastRun(store'.state, a) = GetLastRun(store.state, a)
                 /\ \A n \in PresetNames :
                      GetPresetValues(store'.state, a, n)
                         = GetPresetValues(store.state, a, n)]_vars

\* A rename to the name of another preset, with other values, was
\* rejected while last_run referred to the preset to be renamed.
C34_Witness ==
    /\ store.pc = "ready"
    /\ store.call.op = "rename_preset"
    /\ store.call.result = "PresetError"
    /\ LET c == store.call
       IN  /\ c.name # c.new_name
           /\ {c.name, c.new_name} \subseteq ListPresets(store.state, c.action)
           /\ GetPresetValues(store.state, c.action, c.name)
                 # GetPresetValues(store.state, c.action, c.new_name)
           /\ GetLastRun(store.state, c.action) = PresetRef(c.name)
           /\ store.file = SaveState(store.state)

====
